---------------------------- MODULE Spec2Model ----------------------------
(***************************************************************************)
(* pybacktest: the order-execution engine (Backtest.execute_action,        *)
(* Portfolio.update), the valuation (Backtest.get_protfolio_value), the    *)
(* simulation driver (Backtest.run) that calls them once per date, and the *)
(* Rule Evaluator (StrategyManager.apply) that turns a strategy document   *)
(* into orders.  Spec runs the driver on any batch of orders; EvalSpec     *)
(* calls the evaluator on documents, frames and portfolios built by hand.  *)
(*                                                                         *)
(* Numbers.  Python floats that stay integral (cash, prices, costs) are    *)
(* integers here.  The cost basis is an exact fraction <<num, den>> in     *)
(* lowest terms.  The one place where float rounding changes an integer    *)
(* result, math.floor(quantity * (available_cash / total_buy_cost)), is    *)
(* computed with IEEE-754 double rounding (FloorScaled).  A cell of a      *)
(* price table is [nan, v] so that NaN can be told from a number.          *)
(***************************************************************************)
EXTENDS Integers, Sequences, FiniteSets

(***************************************************************************)
(* Bounds and inputs                                                       *)
(***************************************************************************)
NumDays == 4
MaxBatchLen == 3

Tickers == {"A", "B"}
TickerOrder == <<"A", "B">>
Days == 1..NumDays
InitialCapitals == {0, 30}
None == 0

Action(ticker, type, quantity, price) ==
    [ticker |-> ticker, type |-> type, quantity |-> quantity, price |-> price]

\* The orders a strategy function may return (Strategy.func is any callable).
ActionPool ==
    { Action("A", "buy", 22, 1), Action("A", "buy", 5, 0),
      Action("A", "sell", 5, 2), Action("B", "buy", 5, 2),
      Action("B", "sell", 5, 0), Action("B", "buy", -5, 2) }

SeqsUpTo(S, n) == UNION { [1..k -> S] : k \in 0..n }
Batches == SeqsUpTo(ActionPool, MaxBatchLen)

(***************************************************************************)
(* Arithmetic helpers                                                      *)
(***************************************************************************)
Abs(x) == IF x < 0 THEN -x ELSE x

RECURSIVE GCD(_, _)
GCD(a, b) == IF b = 0 THEN a ELSE GCD(b, a % b)

\* The fraction n/d (d > 0) in lowest terms.
Frac(n, d) ==
    LET g == GCD(Abs(n), d) IN <<n \div g, d \div g>>

Zero == <<0, 1>>

RECURSIVE Pow2(_)
Pow2(j) == IF j = 0 THEN 1 ELSE 2 * Pow2(j - 1)

\* 2^e mod c, by repeated doubling.
RECURSIVE Pow2Mod(_, _)
Pow2Mod(e, c) == IF e = 0 THEN 1 % c ELSE (2 * Pow2Mod(e - 1, c)) % c

\* floor(log2(k)), k >= 1.
RECURSIVE Log2Floor(_)
Log2Floor(k) == IF k < 2 THEN 0 ELSE 1 + Log2Floor(k \div 2)

\* The t with c <= a * 2^t < 2c, for a, c > 0: a/c lies in [2^-t, 2^(1-t)).
RECURSIVE BinadeShift(_, _)
BinadeShift(a, c) ==
    IF a >= c THEN -Log2Floor(a \div c)
    ELSE IF 2 * a >= c THEN 1
    ELSE 1 + BinadeShift(2 * a, c)

MantissaBits == 52


(***************************************************************************)
(* math.floor(quantity * ratio) with ratio = available_cash /              *)
(* total_buy_cost, both operations rounded to the nearest double.          *)
(* For integers 0 < a < c and q >= 1 far below 2^52 the rounding can only  *)
(* change the floor when q*a/c is an integer k.  Then, with                *)
(* e = MantissaBits + BinadeShift(a, c), the stored ratio is M / 2^e with  *)
(* M = a*2^e/c rounded to nearest, the product q*M differs from k*2^e by   *)
(* D = q*d/c (d the signed rounding remainder), and the rounded product is *)
(* below k exactly when D < 0 and |D| exceeds half a unit in the last      *)
(* place of the product.                                                   *)
(***************************************************************************)
RoundingRemainder(a, c) ==
    LET e == MantissaBits + BinadeShift(a, c)
        r == ((a % c) * Pow2Mod(e, c)) % c
    IN  IF 2 * r < c THEN -r ELSE c - r

IsPow2(k) == Pow2(Log2Floor(k)) = k

ProductUlp(a, c, k) ==
    Pow2(BinadeShift(a, c) + Log2Floor(k) - (IF IsPow2(k) THEN 1 ELSE 0))

FloorScaledExact(q, a, c) == (q * a) \div c

FloorScaled(q, a, c) ==
    LET k == (q * a) \div c
        D == (q * RoundingRemainder(a, c)) \div c
    IN  IF (q * a) % c # 0 \/ k = 0 THEN k
        ELSE IF D >= 0 THEN k
        ELSE IF 2 * (-D) <= ProductUlp(a, c, k) THEN k
        ELSE k - 1

\* ratio is <<1, 1>> (the float 1.0) or <<available_cash, total_buy_cost>>.
One == <<1, 1>>
QuantityToBuy(quantity, ratio) ==
    IF ratio = One THEN quantity
    ELSE FloorScaled(quantity, ratio[1], ratio[2])

(***************************************************************************)
(* Portfolio (models.py)                                                   *)
(***************************************************************************)
NewPortfolio(cash) ==
    [cash |-> cash,
     stock_count |-> [t \in Tickers |-> 0],
     buy_value |-> [t \in Tickers |-> Zero]]

\* (stock_count * buy_value + amount * price) / (stock_count + amount), the
\* cost basis after amount shares at price join the position of ticker.
Averaged(p, ticker, amount, price) ==
    Frac(p.stock_count[ticker] * p.buy_value[ticker][1]
             + amount * price * p.buy_value[ticker][2],
         p.buy_value[ticker][2] * (p.stock_count[ticker] + amount))

\* Mutant of PortfolioUpdate: a sell that closes a position clears the cost
\* basis of every ticker.
PortfolioUpdateClearsAll(p, ticker, amount, price) ==
    [cash |-> p.cash - amount * price,
     stock_count |-> [p.stock_count EXCEPT ![ticker] = @ + amount],
     buy_value |->
         IF amount > 0
         THEN [p.buy_value EXCEPT ![ticker] = Averaged(p, ticker, amount, price)]
         ELSE IF amount < 0 /\ p.stock_count[ticker] + amount <= 0
         THEN [t \in Tickers |-> Zero]
         ELSE p.buy_value]

\* Mutant of PortfolioUpdate: the cost basis is the price of the last buy.
PortfolioUpdateLastPrice(p, ticker, amount, price) ==
    [cash |-> p.cash - amount * price,
     stock_count |-> [p.stock_count EXCEPT ![ticker] = @ + amount],
     buy_value |->
         IF amount > 0 THEN [p.buy_value EXCEPT ![ticker] = <<price, 1>>]
         ELSE IF amount < 0 /\ p.stock_count[ticker] + amount <= 0
         THEN [p.buy_value EXCEPT ![ticker] = Zero]
         ELSE p.buy_value]

\* Mutant of PortfolioUpdate: a sell never resets the cost basis.
PortfolioUpdateKeepsBasis(p, ticker, amount, price) ==
    [cash |-> p.cash - amount * price,
     stock_count |-> [p.stock_count EXCEPT ![ticker] = @ + amount],
     buy_value |->
         IF amount > 0
         THEN [p.buy_value EXCEPT ![ticker] = Averaged(p, ticker, amount, price)]
         ELSE p.buy_value]

\* Mutant of PortfolioUpdate: a buy pays a fee of one unit of cash.
PortfolioUpdateWithFee(p, ticker, amount, price) ==
    [cash |-> IF amount > 0 THEN p.cash - amount * price - 1
              ELSE p.cash - amount * price,
     stock_count |-> [p.stock_count EXCEPT ![ticker] = @ + amount],
     buy_value |->
         IF amount > 0
         THEN [p.buy_value EXCEPT ![ticker] = Averaged(p, ticker, amount, price)]
         ELSE IF amount < 0 /\ p.stock_count[ticker] + amount <= 0
         THEN [p.buy_value EXCEPT ![ticker] = Zero]
         ELSE p.buy_value]

\* Portfolio.update(ticker, amount, price): amount > 0 buys, amount < 0 sells.
PortfolioUpdate(p, ticker, amount, price) ==
    LET count == p.stock_count[ticker]
        basis == p.buy_value[ticker]
    IN  IF amount > 0 THEN
            LET cost == amount * price
            IN  [cash |-> p.cash - cost,
                 stock_count |-> [p.stock_count EXCEPT ![ticker] = count + amount],
                 \* updated_value / self.stock_count[ticker]
                 buy_value |-> [p.buy_value EXCEPT
                     ![ticker] = Averaged(p, ticker, amount, price)]]
        ELSE IF amount < 0 THEN
            LET rev == (-amount) * price
            IN  [cash |-> p.cash + rev,
                 stock_count |-> [p.stock_count EXCEPT ![ticker] = count + amount],
                 buy_value |-> [p.buy_value EXCEPT
                     ![ticker] = IF count + amount <= 0 THEN Zero ELSE basis]]
        ELSE p

(***************************************************************************)
(* Price tables (Stock.data): one row per calendar day of the index, with  *)
(* the columns the valuation reads (Close), a second price column (Open)   *)
(* and the one data_processing derives with shift(1) (Change), which is    *)
(* NaN on the first row.                                                   *)
(***************************************************************************)
NaN == [nan |-> TRUE, v |-> 0]
Num(x) == [nan |-> FALSE, v |-> x]
AbsentRow == [inIndex |-> FALSE, Close |-> NaN, Open |-> NaN, Change |-> NaN]
NoneRow == [inIndex |-> TRUE, Close |-> NaN, Open |-> NaN, Change |-> NaN]

\* The downloaded history: A trades every day but each third, B on days 2 to 4.
RawInIndex(t, d) == IF t = "A" THEN d % 3 # 0 ELSE d >= 2 /\ d <= 4
RawClose(t, d) == IF t = "A" THEN 1 + (d % 2) ELSE 2 + ((d + 1) % 2)
RawOpen(t, d) == RawClose(t, d) + 1

Max(S) == CHOOSE x \in S : \A y \in S : y <= x
Min(S) == CHOOSE x \in S : \A y \in S : x <= y

\* Stock.data_processing: Change = Close - Close.shift(1).
DataProcessing(t) ==
    [d \in Days |->
        IF ~RawInIndex(t, d) THEN AbsentRow
        ELSE LET before == {e \in Days : e < d /\ RawInIndex(t, e)}
             IN  [inIndex |-> TRUE,
                  Close |-> Num(RawClose(t, d)),
                  Open |-> Num(RawOpen(t, d)),
                  Change |-> IF before = {} THEN NaN
                             ELSE Num(RawClose(t, d) - RawClose(t, Max(before)))]]

RECURSIVE Sorted(_)
Sorted(S) == IF S = {} THEN <<>> ELSE <<Min(S)>> \o Sorted(S \ {Min(S)})

\* Mutant of GetCommonDates: the dates of any series, not of every series.
GetAnyDates(d) ==
    Sorted({day \in Days : \E t \in Tickers : d[t][day].inIndex})

\* Backtest.get_common_dates: the sorted intersection of the indexes.
GetCommonDates(d) ==
    Sorted({day \in Days : \A t \in Tickers : d[t][day].inIndex})

(***************************************************************************)
(* Backtest.get_protfolio_value                                            *)
(***************************************************************************)
\* stock.data.loc[date] = None; sort_index(): a row of NaN enters the index.
InsertMissing(d, date) ==
    [t \in Tickers |->
        IF d[t][date].inIndex THEN d[t]
        ELSE [d[t] EXCEPT ![date] = NoneRow]]

HasNaN(row) == row.Close.nan \/ row.Open.nan \/ row.Change.nan

\* DataFrame.asof(date)["Close"]: the last row at or before date with no NaN
\* in any column; NaN when there is none.
AsofClose(series, date) ==
    LET full == {e \in Days : e <= date /\ series[e].inIndex /\ ~HasNaN(series[e])}
    IN  IF full = {} THEN NaN ELSE series[Max(full)].Close

FMul(n, x) == IF x.nan THEN NaN ELSE Num(n * x.v)
FAdd(x, y) == IF x.nan \/ y.nan THEN NaN ELSE Num(x.v + y.v)

RECURSIVE SumValue(_, _, _, _)
SumValue(p, d, date, k) ==
    IF k = 0 THEN Num(p.cash)
    ELSE FAdd(SumValue(p, d, date, k - 1),
              FMul(p.stock_count[TickerOrder[k]],
                   AsofClose(d[TickerOrder[k]], date)))

GetPortfolioValue(p, d, date) ==
    SumValue(p, InsertMissing(d, date), date, Len(TickerOrder))

(***************************************************************************)
(* Backtest.execute_action, as a function of the portfolio, the trade log, *)
(* the date and the batch                                                  *)
(***************************************************************************)
\* Mutant of Keep: the partition keeps orders of any quantity.
KeepAnyQuantity(a, type) == a.type = type

\* "if action.quantity <= 0: continue", then the test of action.type.
Keep(a, type) == a.quantity > 0 /\ a.type = type

\* Mutant of Partition: each order goes to the front of its list.
RECURSIVE PartitionNewestFirst(_, _)
PartitionNewestFirst(batch, type) ==
    IF batch = <<>> THEN <<>>
    ELSE PartitionNewestFirst(Tail(batch), type)
         \o (IF Keep(Head(batch), type) THEN <<Head(batch)>> ELSE <<>>)

\* The partition loop: orders with quantity <= 0 are dropped.
RECURSIVE Partition(_, _)
Partition(batch, type) ==
    IF batch = <<>> THEN <<>>
    ELSE (IF Keep(Head(batch), type) THEN <<Head(batch)>> ELSE <<>>)
         \o Partition(Tail(batch), type)

Sells(batch) == Partition(batch, "sell")
Buys(batch) == Partition(batch, "buy")

\* Mutant of Trade: the record carries the quantity the order asked for.
TradeAsRequested(date, a, quantity) ==
    [date |-> date, ticker |-> a.ticker, type |-> a.type,
     quantity |-> a.quantity, price |-> a.price]

\* The trade record of an executed order: the dict appended to self.trades.
Trade(date, a, quantity) ==
    [date |-> date, ticker |-> a.ticker, type |-> a.type,
     quantity |-> quantity, price |-> a.price]

\* Mutant of CanSell: the guard only asks for a non-negative holding.
CanSellAnyHolding(p, a) == p.stock_count[a.ticker] >= 0

\* Mutant of CanSell: one held share is enough to sell any quantity.
CanSellOneShare(p, a) == p.stock_count[a.ticker] >= 1

\* "if self.portfolio.stock_count[action.ticker] >= action.quantity"
CanSell(p, a) == p.stock_count[a.ticker] >= a.quantity

\* Mutant of SellLoop: the sells after the one that raises are still applied.
RECURSIVE SellLoopContinues(_, _, _)
SellLoopContinues(acc, date, ss) ==
    IF ss = <<>> THEN acc
    ELSE IF CanSell(acc.portfolio, Head(ss)) THEN
        SellLoopContinues(
            [portfolio |-> PortfolioUpdate(acc.portfolio, Head(ss).ticker,
                                           -Head(ss).quantity, Head(ss).price),
             trades |-> Append(acc.trades,
                               Trade(date, Head(ss), Head(ss).quantity)),
             raised |-> acc.raised,
             path |-> Append(acc.path,
                             PortfolioUpdate(acc.portfolio, Head(ss).ticker,
                                             -Head(ss).quantity, Head(ss).price))],
            date, Tail(ss))
    ELSE SellLoopContinues([acc EXCEPT !.raised = TRUE], date, Tail(ss))

\* "for action in sells": stops at the first sell that raises ValueError.
\* acc carries the portfolio, the trade log and the path so far; path lists
\* the portfolio after each executed order.
RECURSIVE SellLoop(_, _, _)
SellLoop(acc, date, ss) ==
    IF ss = <<>> THEN acc
    ELSE IF CanSell(acc.portfolio, Head(ss)) THEN
        SellLoop(
            [portfolio |-> PortfolioUpdate(acc.portfolio, Head(ss).ticker,
                                           -Head(ss).quantity, Head(ss).price),
             trades |-> Append(acc.trades,
                               Trade(date, Head(ss), Head(ss).quantity)),
             raised |-> FALSE,
             path |-> Append(acc.path,
                             PortfolioUpdate(acc.portfolio, Head(ss).ticker,
                                             -Head(ss).quantity, Head(ss).price))],
            date, Tail(ss))
    ELSE [acc EXCEPT !.raised = TRUE]

RECURSIVE TotalBuyCost(_)
TotalBuyCost(bs) ==
    IF bs = <<>> THEN 0
    ELSE Head(bs).price * Head(bs).quantity + TotalBuyCost(Tail(bs))

\* Mutant of NoCashReturn: the buys are skipped only when cash is below zero.
NoCashReturnBelowZero(total_buy_cost, available_cash) ==
    total_buy_cost > available_cash /\ available_cash < 0

\* "elif total_buy_cost > available_cash and available_cash <= 0: return"
NoCashReturn(total_buy_cost, available_cash) ==
    total_buy_cost > available_cash /\ available_cash <= 0

\* "if total_buy_cost > available_cash and available_cash > 0"
ScaleDown(total_buy_cost, available_cash) ==
    total_buy_cost > available_cash /\ available_cash > 0

Ratio(total_buy_cost, available_cash) ==
    IF ScaleDown(total_buy_cost, available_cash)
    THEN <<available_cash, total_buy_cost>>
    ELSE One

\* "if self.portfolio.cash >= cost"
CashCheck(p, cost) == p.cash >= cost

\* Mutant of Executed: the requested quantity, neither scaled nor checked.
ExecutedAsRequested(p, a, r) == a.quantity

\* The quantity one buy executes: 0 when it is scaled to nothing or skipped.
Executed(p, a, r) ==
    LET quantity_to_buy == QuantityToBuy(a.quantity, r)
    IN  IF quantity_to_buy > 0 /\ CashCheck(p, quantity_to_buy * a.price)
        THEN quantity_to_buy
        ELSE 0

\* One pass of "for action in buys" over the order a.
BuyOne(acc, date, a, r, q) ==
    [portfolio |-> PortfolioUpdate(acc.portfolio, a.ticker, q, a.price),
     trades |-> IF q > 0 THEN Append(acc.trades, Trade(date, a, q))
                ELSE acc.trades,
     filled |-> Append(acc.filled, q),
     path |-> IF q > 0
              THEN Append(acc.path,
                          PortfolioUpdate(acc.portfolio, a.ticker, q, a.price))
              ELSE acc.path]

\* "for action in buys"; filled lists the executed quantity of each buy.
RECURSIVE BuyLoop(_, _, _, _)
BuyLoop(acc, date, bs, r) ==
    IF bs = <<>> THEN acc
    ELSE BuyLoop(BuyOne(acc, date, Head(bs), r,
                        Executed(acc.portfolio, Head(bs), r)),
                 date, Tail(bs), r)

\* Mutant of Stopped: a call that raises takes the trade log with it.
StoppedEmptyLog(s, outcome) ==
    [portfolio |-> s.portfolio,
     trades |-> IF outcome = "raised" THEN <<>> ELSE s.trades,
     mid |-> s.portfolio, ratio |-> One, filled |-> <<>>, path |-> s.path,
     outcome |-> outcome]

\* The call ends after the sell loop.
Stopped(s, outcome) ==
    [portfolio |-> s.portfolio, trades |-> s.trades, mid |-> s.portfolio,
     ratio |-> One, filled |-> <<>>, path |-> s.path, outcome |-> outcome]

\* The call runs the buy loop from the state s the sells left.
Bought(s, b, r) ==
    [portfolio |-> b.portfolio, trades |-> b.trades, mid |-> s.portfolio,
     ratio |-> r, filled |-> b.filled, path |-> b.path, outcome |-> "bought"]

\* The part of the call after the sell loop.
AfterSells(s, date, bs, total_buy_cost, available_cash) ==
    IF s.raised THEN Stopped(s, "raised")
    ELSE IF bs = <<>> THEN Stopped(s, "no_buys")
    ELSE IF NoCashReturn(total_buy_cost, available_cash)
         THEN Stopped(s, "no_cash")
    ELSE Bought(s,
                BuyLoop([portfolio |-> s.portfolio, trades |-> s.trades,
                         filled |-> <<>>, path |-> s.path],
                        date, bs, Ratio(total_buy_cost, available_cash)),
                Ratio(total_buy_cost, available_cash))

\* Mutant of ExecuteAction: the buys are admitted and scaled against the cash
\* the portfolio held when the call began.
ExecuteActionCashAtEntry(p, tr, date, batch) ==
    LET s == SellLoop([portfolio |-> p, trades |-> tr, raised |-> FALSE,
                       path |-> <<>>], date, Sells(batch))
    IN  AfterSells(s, date, Buys(batch), TotalBuyCost(Buys(batch)), p.cash)

\* The whole call.  outcome: "raised" (ValueError from a sell), "no_buys",
\* "no_cash" (both return after the sells) or "bought" (the buy loop ran).
ExecuteAction(p, tr, date, batch) ==
    LET s == SellLoop([portfolio |-> p, trades |-> tr, raised |-> FALSE,
                       path |-> <<>>], date, Sells(batch))
    IN  AfterSells(s, date, Buys(batch), TotalBuyCost(Buys(batch)),
                   s.portfolio.cash)

(***************************************************************************)
(* The Rule Evaluator (StrategyManager).  The numbers it compares are      *)
(* doubles: [nan, q, ulp] is NaN, or the fraction q when ulp = 0, or the   *)
(* double next above (ulp = 1) or below (ulp = -1) the fraction q.         *)
(***************************************************************************)
FNaN == [nan |-> TRUE, q |-> Zero, ulp |-> 0]
Float(q, ulp) == [nan |-> FALSE, q |-> q, ulp |-> ulp]

\* A cell of a price table as a double.
Cell(x) == IF x.nan THEN FNaN ELSE Float(<<x.v, 1>>, 0)

\* x <= y and x >= y on doubles: False when either is NaN.
LessEq(x, y) ==
    /\ ~x.nan /\ ~y.nan
    /\ \/ x.q[1] * y.q[2] < y.q[1] * x.q[2]
       \/ x.q[1] * y.q[2] = y.q[1] * x.q[2] /\ x.ulp <= y.ulp
GreaterEq(x, y) == LessEq(y, x)

\* On which side of q*a/c the double product q * (a / c) falls, for whole
\* q, a, c >= 1 with q*a/c a whole number k: the stored quotient is off by
\* d / (c * 2^e) and the product by D = q*d/c units of 2^-e, which rounds
\* away from k when it exceeds half the gap to the next double on that side.
ProductNudge(q, a, c) ==
    LET k == (q * a) \div c
        D == (q * RoundingRemainder(a, c)) \div c
    IN  IF D = 0 THEN 0
        ELSE IF D < 0
        THEN (IF 2 * (-D) <= ProductUlp(a, c, k) THEN 0 ELSE -1)
        ELSE (IF 2 * D <= Pow2(BinadeShift(a, c) + Log2Floor(k)) THEN 0 ELSE 1)

\* The double basis * (a / 100) for a cost basis that is a whole number or
\* a half (finer bases are taken without the rounding of the product).
ScaledBasis(basis, a) ==
    IF basis[1] = 0 \/ a <= 0 THEN Float(Frac(basis[1] * a, basis[2] * 100), 0)
    ELSE IF basis[2] \in {1, 2} /\ (basis[1] * (2 \div basis[2]) * a) % 100 = 0
    THEN Float(Frac(basis[1] * a, basis[2] * 100),
               ProductNudge(basis[1] * (2 \div basis[2]), a, 100))
    ELSE Float(Frac(basis[1] * a, basis[2] * 100), 0)

\* TradeAction.period: an int, or a bool (the full-history setting).
Window(n) == [isbool |-> FALSE, n |-> n]
FullHistory == [isbool |-> TRUE, n |-> 0]

TradeAction(ticker, by, period, criteria, quantity, trade_as) ==
    [ticker |-> ticker, by |-> by, period |-> period, criteria |-> criteria,
     quantity |-> quantity, trade_as |-> trade_as]

StrategyConfig(buy, sell) == [buy |-> buy, sell |-> sell]

\* What pydantic accepts for a TradeAction: every element of by is one of
\* the literals of the two lists, the kind of criteria is one of its
\* literals, and the mode of quantity is any str.
ByLiterals ==
    {"average", "current", "percentage",
     "Close", "Open", "Low", "High", "Change", "Change_Pct"}
CriteriaLiterals == {"point", "profit-rate", "percent-change"}
ValidRule(rule) ==
    /\ rule.by[1] \in ByLiterals
    /\ rule.by[2] \in ByLiterals
    /\ rule.criteria[1] \in CriteriaLiterals

\* StrategyWrapper.model_validate(document) returns the document.
ModelValidate(document) ==
    \A i \in DOMAIN document :
        ValidRule(document[i].strategy.buy)
        /\ ValidRule(document[i].strategy.sell)

\* StrategyConfig of the later schema: portfolio_weight is what split sizing
\* and rebalancing read.
WeightedConfig(buy, sell, portfolio_weight) ==
    [buy |-> buy, sell |-> sell, portfolio_weight |-> portfolio_weight]

\* Stock.cut_data(start, date): the days of the rows at or before date.
CutData(series, date) == {d \in Days : d <= date /\ series[d].inIndex}

\* series[field].iloc[-1] of a slice that has a row.
Last(series, rows, field) == Cell(series[Max(rows)][field])

\* The last n days of a slice.
LastRows(rows, n) == {d \in rows : Cardinality({e \in rows : e > d}) < n}

RECURSIVE SumCells(_, _, _)
SumCells(series, rows, field) ==
    IF rows = {} THEN 0
    ELSE series[Max(rows)][field].v
         + SumCells(series, rows \ {Max(rows)}, field)

\* rolling(window=n, min_periods=1).mean() at the last row: the mean of the
\* cells of the last n rows that are not NaN, NaN when there is none.
RollingMean(series, rows, field, n) ==
    LET seen == {d \in LastRows(rows, n) : ~series[d][field].nan}
    IN  IF seen = {} THEN FNaN
        ELSE Float(Frac(SumCells(series, seen, field), Cardinality(seen)), 0)

\* compare_value of one rule.  isinstance(period, int) holds for a bool too,
\* and rolling() rejects a bool window with ValueError; iloc[-1] and [-1] on
\* an empty slice raise IndexError.
CompareValue(rule, series, rows) ==
    IF rule.by[1] = "average" THEN
        IF rule.period.isbool
        THEN [raised |-> "ValueError", value |-> FNaN]
        ELSE IF rows = {} THEN [raised |-> "IndexError", value |-> FNaN]
        ELSE [raised |-> "none",
              value |-> RollingMean(series, rows, rule.by[2], rule.period.n)]
    ELSE IF rule.by[1] = "current" THEN
        IF rows = {} THEN [raised |-> "IndexError", value |-> FNaN]
        ELSE [raised |-> "none", value |-> Last(series, rows, rule.by[2])]
    ELSE [raised |-> "ValueError", value |-> FNaN]

\* criteria of one rule, from buy_value of the traded ticker.
Criteria(crit, buy_value) ==
    IF crit[1] = "percent-change"
    THEN [raised |-> "none", value |-> Float(<<crit[2], 1>>, 0)]
    ELSE IF crit[1] = "point"
    THEN [raised |-> "none",
          value |-> Float(Frac(buy_value[1] + crit[2] * buy_value[2],
                               buy_value[2]), 0)]
    ELSE IF crit[1] = "profit-rate"
    THEN [raised |-> "none", value |-> ScaledBasis(buy_value, 100 + crit[2])]
    ELSE [raised |-> "ValueError", value |-> FNaN]

\* A rule that fires on an indicator at or above its baseline whatever the
\* sign of the threshold value.
FiresAbove(crit, compare_value, criteria) == GreaterEq(compare_value, criteria)

\* "if crit[1] <= 0: if compare_value <= criteria ... else: if compare_value
\* >= criteria"
Fires(crit, compare_value, criteria) ==
    IF crit[2] <= 0 THEN LessEq(compare_value, criteria)
    ELSE GreaterEq(compare_value, criteria)


Max2(a, b) == IF a >= b THEN a ELSE b
Min2(a, b) == IF a <= b THEN a ELSE b

\* math.ceil(x / price) for whole x and price > 0.
Ceil(x, price) == -((-x) \div price)

\* A split that leaves the weight out.
SplitQuantityUnweighted(capital, n, portfolio_weight, price) ==
    capital \div (n * price)

\* Quantity mode split (the later schema): the share count that
\* initial_capital / N * portfolio_weight buys at price.
SplitQuantity(capital, n, portfolio_weight, price) ==
    (capital * portfolio_weight[1]) \div (n * portfolio_weight[2] * price)

\* create_action, the quantity before the clamp.
Quantity(quantity_type, quantity, price, held) ==
    IF quantity_type = "count" THEN [raised |-> "none", value |-> quantity]
    ELSE IF quantity_type = "percent"
    THEN [raised |-> "none", value |-> Max2(FloorScaled(held, quantity, 100), 1)]
    ELSE IF quantity_type = "value"
    THEN [raised |-> "none", value |-> quantity \div price]
    ELSE [raised |-> "ValueError", value |-> 0]

\* A buy that is sized without a look at the cash.
ClampBuyNever(quantity, price, cash) == quantity

\* over_quantity = math.ceil((price*quantity - portfolio.cash) / price);
\* min(quantity, quantity - over_quantity)
ClampBuy(quantity, price, cash) ==
    Min2(quantity, quantity - Ceil(price * quantity - cash, price))

\* A sell that is not cut to the shares held.
ClampSellNever(quantity, held) == quantity

\* min(quantity, portfolio.stock_count[ticker])
ClampSell(quantity, held) == Min2(quantity, held)

\* A create_action that makes no order of a quantity that is not above 0.
CreateActionDropsEmpty(type, ticker, price, quantity_type, quantity, p) ==
    LET r == Quantity(quantity_type, quantity, price, p.stock_count[ticker])
        q == IF type = "buy" THEN ClampBuy(r.value, price, p.cash)
             ELSE ClampSell(r.value, p.stock_count[ticker])
    IN  IF r.raised # "none" THEN [raised |-> r.raised, actions |-> <<>>]
        ELSE IF type \notin {"buy", "sell"}
        THEN [raised |-> "ValueError", actions |-> <<>>]
        ELSE [raised |-> "none",
              actions |-> IF q > 0 THEN <<Action(ticker, type, q, price)>>
                          ELSE <<>>]

\* StrategyManager.create_action.
CreateAction(type, ticker, price, quantity_type, quantity, p) ==
    LET r == Quantity(quantity_type, quantity, price, p.stock_count[ticker])
    IN  IF r.raised # "none" THEN [raised |-> r.raised, actions |-> <<>>]
        ELSE IF type = "buy"
        THEN [raised |-> "none",
              actions |-> <<Action(ticker, "buy",
                                   ClampBuy(r.value, price, p.cash), price)>>]
        ELSE IF type = "sell"
        THEN [raised |-> "none",
              actions |-> <<Action(ticker, "sell",
                                   ClampSell(r.value, p.stock_count[ticker]),
                                   price)>>]
        ELSE [raised |-> "ValueError", actions |-> <<>>]

\* create_action of the later schema: the mode split resolves to its share
\* count, which is clamped like a count; the other modes are as above.
CreateSized(type, ticker, price, rule, p, capital, strategy) ==
    IF rule.quantity[1] = "split"
    THEN CreateAction(type, ticker, price, "count",
                      SplitQuantity(capital, rule.quantity[2],
                                    strategy.portfolio_weight, price), p)
    ELSE CreateAction(type, ticker, price, rule.quantity[1], rule.quantity[2],
                      p)

\* What the evaluation of one rule leaves: the locals of apply_strategy.
Step(ticker, type, rule, price, compare_value, criteria, fired) ==
    [ticker |-> ticker, type |-> type, rule |-> rule, price |-> price,
     compare_value |-> compare_value, criteria |-> criteria, fired |-> fired]

\* What one part of apply_strategy leaves, from the compare_value cv and the
\* criteria cr of its rule and the order made that create_action returns
\* when the rule fires.
Decided(type, ticker, rule, price, cv, cr, fired, made) ==
    IF cv.raised # "none"
    THEN [raised |-> cv.raised, actions |-> <<>>, steps |-> <<>>]
    ELSE IF cr.raised # "none"
    THEN [raised |-> cr.raised, actions |-> <<>>, steps |-> <<>>]
    ELSE IF fired /\ made.raised # "none"
    THEN [raised |-> made.raised, actions |-> <<>>, steps |-> <<>>]
    ELSE [raised |-> "none",
          actions |-> IF fired THEN made.actions ELSE <<>>,
          steps |-> <<Step(ticker, type, rule, price, cv.value, cr.value,
                           fired)>>]

Compared(type, ticker, rule, price, cv, cr, made) ==
    Decided(type, ticker, rule, price, cv, cr,
            Fires(rule.criteria, cv.value, cr.value), made)

\* The buy part or the sell part of apply_strategy, for the rule of that
\* side; price is the local set before the buy part.
Part(type, ticker, rule, price, p, d, date, capital, strategy) ==
    Compared(type, ticker, rule, price,
             CompareValue(rule, d[rule.ticker], CutData(d[rule.ticker], date)),
             Criteria(rule.criteria, p.buy_value[ticker]),
             CreateSized(type, ticker, price, rule, p, capital, strategy))

\* The price local of apply_strategy: target_data.data[buy.trade_as].iloc[-1].
Price(series, rows, trade_as) == series[Max(rows)][trade_as].v

\* The sell part, after a buy part that did not raise.
SellPart(bought, ticker, strategy, price, p, d, date, capital) ==
    LET sold == Part("sell", ticker, strategy.sell, price, p, d, date, capital,
                     strategy)
    IN  [raised |-> sold.raised,
         actions |-> IF sold.raised # "none" THEN <<>>
                     ELSE bought.actions \o sold.actions,
         steps |-> bought.steps \o sold.steps]

\* StrategyManager.apply_strategy for one item of the document.
ApplyStrategy(ticker, strategy, p, d, date, capital) ==
    IF ~({ticker, strategy.buy.ticker, strategy.sell.ticker} \subseteq DOMAIN d)
    THEN [raised |-> "KeyError", actions |-> <<>>, steps |-> <<>>]
    ELSE IF CutData(d[ticker], date) = {}
    THEN [raised |-> "IndexError", actions |-> <<>>, steps |-> <<>>]
    ELSE
        LET price == Price(d[ticker], CutData(d[ticker], date),
                           strategy.buy.trade_as)
            bought == Part("buy", ticker, strategy.buy, price, p, d, date,
                           capital, strategy)
        IN  IF bought.raised # "none" THEN bought
            ELSE SellPart(bought, ticker, strategy, price, p, d, date, capital)

\* An apply that, when an item fails, returns the orders of the items before
\* it.
RECURSIVE ApplyKeepsOrders(_, _, _, _, _, _)
ApplyKeepsOrders(acc, strategies, p, d, date, capital) ==
    IF strategies = <<>> THEN acc
    ELSE LET r == ApplyStrategy(Head(strategies).ticker,
                                Head(strategies).strategy, p, d, date, capital)
         IN  IF r.raised # "none"
             THEN [raised |-> r.raised, actions |-> acc.actions,
                   steps |-> acc.steps \o r.steps]
             ELSE ApplyKeepsOrders([raised |-> "none",
                                    actions |-> acc.actions \o r.actions,
                                    steps |-> acc.steps \o r.steps],
                                   Tail(strategies), p, d, date, capital)

\* An apply that puts the orders of each item before those of the items
\* evaluated earlier.
RECURSIVE ApplyNewestFirst(_, _, _, _, _, _)
ApplyNewestFirst(acc, strategies, p, d, date, capital) ==
    IF strategies = <<>> THEN acc
    ELSE LET r == ApplyStrategy(Head(strategies).ticker,
                                Head(strategies).strategy, p, d, date, capital)
         IN  IF r.raised # "none"
             THEN [raised |-> r.raised, actions |-> <<>>,
                   steps |-> acc.steps \o r.steps]
             ELSE ApplyNewestFirst([raised |-> "none",
                                    actions |-> r.actions \o acc.actions,
                                    steps |-> acc.steps \o r.steps],
                                   Tail(strategies), p, d, date, capital)

\* StrategyManager.apply: the items of the document in insertion order; an
\* error ends the call and nothing is returned.
RECURSIVE Apply(_, _, _, _, _, _)
Apply(acc, strategies, p, d, date, capital) ==
    IF strategies = <<>> THEN acc
    ELSE LET r == ApplyStrategy(Head(strategies).ticker,
                                Head(strategies).strategy, p, d, date, capital)
         IN  IF r.raised # "none"
             THEN [raised |-> r.raised, actions |-> <<>>,
                   steps |-> acc.steps \o r.steps]
             ELSE Apply([raised |-> "none",
                         actions |-> acc.actions \o r.actions,
                         steps |-> acc.steps \o r.steps],
                        Tail(strategies), p, d, date, capital)

(***************************************************************************)
(* State                                                                   *)
(***************************************************************************)
VARIABLES
    initial_capital,   \* Backtest.initial_capital
    portfolio,         \* Backtest.portfolio: cash, stock_count, buy_value
    trades,            \* Backtest.trades[strategy]
    data,              \* Stock.data of every stock
    dates,             \* Backtest.dates
    value_over_time,   \* Backtest.value_over_time[strategy]: date -> value
    daily_snapshots,   \* Backtest.daily_snapshots
    pc,                \* where the driver stands
    run_dates,         \* run(): the dates of this run
    di,                \* run(): position in run_dates
    value,             \* what the last get_protfolio_value query returned
    actions,           \* the batch of the last execute_action call
    outcome,           \* how that call ended
    ratio,             \* its scaling ratio
    pre,               \* the portfolio and the trade log when it was called
    mid,               \* the portfolio when its sells were done
    filled,            \* the executed quantity of each of its buys, in order
    path,              \* the portfolio after each order it executed
    applied,           \* the last call of the Rule Evaluator and its result
    managers,          \* Backtest.strategies: the strategy objects, in order
    si,                \* run(): position in Backtest.strategies
    runs,              \* the run() calls made so far
    shelf,             \* trades[s] and value_over_time[s] of every strategy s
                       \* but the one running, whose entries are the
                       \* variables trades and value_over_time
    monthly_df         \* what the last get_monthly_snapshots call returned

vars == <<initial_capital, portfolio, trades, data, dates, value_over_time,
          daily_snapshots, pc, run_dates, di, value, actions, outcome, ratio,
          pre, mid, filled, path, applied, managers, si, runs, shelf,
          monthly_df>>

call == <<actions, outcome, ratio, pre, mid, filled, path>>

loop == <<managers, si, runs, shelf>>

NoValue == [date |-> None, result |-> NaN]

\* The Rule Evaluator has not been called.
NoApply ==
    [call |-> "none", strategies |-> <<>>, date |-> None, raised |-> "none",
     actions |-> <<>>, steps |-> <<>>]
Snap(p, tr) == [portfolio |-> p, trades |-> tr]

\* No execute_action call is in sight: before the first, and once run() has
\* moved on from one.
NoCall(p, tr) ==
    /\ actions = <<>>
    /\ outcome = "none"
    /\ ratio = One
    /\ pre = Snap(p, tr)
    /\ mid = p
    /\ filled = <<>>
    /\ path = <<>>

\* execute_action has returned and run() moves on: the call is out of sight.
ForgetCall ==
    /\ actions' = <<>>
    /\ outcome' = "none"
    /\ ratio' = One
    /\ pre' = Snap(portfolio, trades)
    /\ mid' = portfolio
    /\ filled' = <<>>
    /\ path' = <<>>

Range(s) == {s[i] : i \in DOMAIN s}

\* What the defaultdicts trades and value_over_time hold for a strategy that
\* has not run.
NoResults == [trades |-> <<>>, value_over_time |-> [d \in {} |-> NaN]]

\* get_monthly_snapshots has not been called.
NotAsked == [asked |-> FALSE, daily_snapshots |-> <<>>, rows |-> <<>>]

\* Backtest.__init__
Init ==
    /\ initial_capital \in InitialCapitals
    /\ portfolio = NewPortfolio(initial_capital)
    /\ trades = <<>>
    /\ data = [t \in Tickers |-> DataProcessing(t)]
    /\ dates = GetCommonDates(data)
    /\ value_over_time = [d \in {} |-> NaN]
    /\ daily_snapshots = <<>>
    /\ pc = "init"
    /\ run_dates = <<>>
    /\ di = 1
    /\ value = NoValue
    /\ NoCall(portfolio, trades)
    /\ applied = NoApply
    /\ managers = <<"s1">>
    /\ si = 1
    /\ runs = 0
    /\ shelf = [s \in Range(managers) |-> NoResults]
    /\ monthly_df = NotAsked

(***************************************************************************)
(* Backtest.run                                                            *)
(***************************************************************************)
RECURSIVE UpTo(_, _)
UpTo(s, end) ==
    IF s = <<>> THEN <<>>
    ELSE (IF Head(s) <= end THEN <<Head(s)>> ELSE <<>>) \o UpTo(Tail(s), end)

\* run_dates = self.dates[self.dates <= end_date] if end_date else self.dates
RunDates(ds, end_date) == IF end_date # None THEN UpTo(ds, end_date) ELSE ds

\* run(end_date) up to the first date of the strategy's loop.
RunStart(end_date) ==
    /\ pc = "init"
    /\ run_dates' = RunDates(dates, end_date)
    /\ portfolio' = NewPortfolio(initial_capital)
    /\ di' = 1
    /\ pc' = IF RunDates(dates, end_date) = <<>> THEN "done" ELSE "apply"
    /\ runs' = runs + 1
    /\ UNCHANGED <<monthly_df, managers, si, shelf, initial_capital, trades, data, dates,
                   value_over_time, daily_snapshots, value, call, applied>>

\* actions = strategy.apply(...); self.execute_action(actions, date, strategy)
\* The strategy is any callable, so the batch is any list of orders.
Execute(batch) ==
    /\ pc = "apply"
    /\ \E r \in {ExecuteAction(portfolio, trades, run_dates[di], batch)} :
           /\ portfolio' = r.portfolio
           /\ trades' = r.trades
           /\ outcome' = r.outcome
           /\ ratio' = r.ratio
           /\ mid' = r.mid
           /\ filled' = r.filled
           /\ path' = r.path
           /\ pc' = IF r.outcome = "raised" THEN "raised" ELSE "record"
    /\ actions' = batch
    /\ pre' = Snap(portfolio, trades)
    /\ UNCHANGED <<loop, monthly_df, initial_capital, data, dates, value_over_time,
                   daily_snapshots, run_dates, di, value, applied>>

\* Stock_Value_<ticker>: shares * Close of the date's own row, 0 without one.
StockValue(p, d, t, date) ==
    IF d[t][date].inIndex THEN FMul(p.stock_count[t], d[t][date].Close)
    ELSE Num(0)

\* record_daily_snapshot: Total_Value comes from get_protfolio_value, which
\* runs before the per-ticker loop.
Snapshot(p, d, date) ==
    [date |-> date,
     Cash |-> p.cash,
     Total_Value |-> GetPortfolioValue(p, d, date),
     Stock_Amount |-> p.stock_count,
     Stock_Value |->
         [t \in Tickers |-> StockValue(p, InsertMissing(d, date), t, date)]]

\* Mutant of Record: the valuation writes the price it read back as the cost
\* basis of every position it priced.
RecordRevalues ==
    /\ pc = "record"
    /\ LET date == run_dates[di]
       IN  /\ value_over_time' =
                 [d \in DOMAIN value_over_time \cup {date} |->
                     IF d = date THEN GetPortfolioValue(portfolio, data, date)
                     ELSE value_over_time[d]]
           /\ daily_snapshots' =
                 Append(daily_snapshots, Snapshot(portfolio, data, date))
           /\ data' = InsertMissing(data, date)
           /\ portfolio' =
                 [portfolio EXCEPT !.buy_value =
                     [t \in Tickers |->
                         IF portfolio.stock_count[t] > 0
                            /\ ~AsofClose(data[t], date).nan
                         THEN <<AsofClose(data[t], date).v, 1>>
                         ELSE portfolio.buy_value[t]]]
    /\ di' = di + 1
    /\ pc' = IF di + 1 <= Len(run_dates) THEN "apply"
             ELSE IF si < Len(managers) THEN "next"
             ELSE "done"
    /\ actions' = <<>>
    /\ outcome' = "none"
    /\ ratio' = One
    /\ pre' = Snap(portfolio, trades)
    /\ mid' = portfolio
    /\ filled' = <<>>
    /\ path' = <<>>
    /\ UNCHANGED <<loop, monthly_df, initial_capital, trades, dates, run_dates,
                   value, applied>>

\* self.value_over_time[strategy][date] = self.get_protfolio_value(date);
\* self.record_daily_snapshot(date); then the next date of the loop.
Record ==
    /\ pc = "record"
    /\ LET date == run_dates[di]
       IN  /\ value_over_time' =
                 [d \in DOMAIN value_over_time \cup {date} |->
                     IF d = date THEN GetPortfolioValue(portfolio, data, date)
                     ELSE value_over_time[d]]
           /\ daily_snapshots' =
                 Append(daily_snapshots, Snapshot(portfolio, data, date))
           /\ data' = InsertMissing(data, date)
    /\ di' = di + 1
    /\ pc' = IF di + 1 <= Len(run_dates) THEN "apply"
             ELSE IF si < Len(managers) THEN "next"
             ELSE "done"
    /\ ForgetCall
    /\ UNCHANGED <<loop, monthly_df, initial_capital, portfolio, trades, dates, run_dates, value,
                   applied>>

\* A caller asks for the portfolio value at a calendar date after the run.
Query(date) ==
    /\ pc = "done"
    /\ value = NoValue
    /\ value' = [date |-> date,
                 result |-> GetPortfolioValue(portfolio, data, date)]
    /\ data' = InsertMissing(data, date)
    /\ UNCHANGED <<loop, monthly_df, initial_capital, portfolio, trades, dates, value_over_time,
                   daily_snapshots, pc, run_dates, di, call, applied>>

Next ==
    \/ \E end_date \in {None} \cup Days : RunStart(end_date)
    \/ \E batch \in Batches : Execute(batch)
    \/ Record
    \/ \E date \in Days : Query(date)

Spec == Init /\ [][Next]_vars

(***************************************************************************)
(* Rebalancing (StrategyManager.rebalance of the later schema)             *)
(***************************************************************************)
\* The as-of price: Close of the latest row at or before date.
AsOfPrice(series, date) == series[Max(CutData(series, date))].Close.v

RECURSIVE TotalValue(_, _, _, _)
TotalValue(p, d, date, k) ==
    IF k = 0 THEN p.cash
    ELSE TotalValue(p, d, date, k - 1)
         + (IF p.stock_count[TickerOrder[k]] = 0 THEN 0
            ELSE p.stock_count[TickerOrder[k]]
                 * AsOfPrice(d[TickerOrder[k]], date))

\* A rebalance that sells the whole position of a ticker above its target.
RebalanceOrderSellsOut(ticker, weight, p, price, total) ==
    LET diff == weight[1] * total - p.stock_count[ticker] * price * weight[2]
        buy == Min2(diff \div (weight[2] * price), p.cash \div price)
    IN  IF weight[1] = 0 THEN <<>>
        ELSE IF diff < 0
        THEN <<Action(ticker, "sell", p.stock_count[ticker], price)>>
        ELSE IF diff > 0 /\ buy > 0 THEN <<Action(ticker, "buy", buy, price)>>
        ELSE <<>>

\* A rebalance whose buys are sized without a look at the cash.
RebalanceOrderBuysAll(ticker, weight, p, price, total) ==
    LET diff == weight[1] * total - p.stock_count[ticker] * price * weight[2]
        sell == Min2((-diff) \div (weight[2] * price), p.stock_count[ticker])
        buy == diff \div (weight[2] * price)
    IN  IF weight[1] = 0 THEN <<>>
        ELSE IF diff < 0 /\ sell > 0 THEN <<Action(ticker, "sell", sell, price)>>
        ELSE IF diff > 0 /\ buy > 0 THEN <<Action(ticker, "buy", buy, price)>>
        ELSE <<>>

\* The order that brings one weighted ticker to its target value, as a
\* sequence of none or one: diff = weight * total - shares * price, a sell
\* of floor(|diff| / price) when diff < 0, a buy of floor(diff / price),
\* clamped like any buy, when diff > 0; quantities <= 0 are not proposed.
RebalanceOrder(ticker, weight, p, price, total) ==
    LET diff == weight[1] * total - p.stock_count[ticker] * price * weight[2]
        sell == ClampSell((-diff) \div (weight[2] * price),
                          p.stock_count[ticker])
        buy == ClampBuy(diff \div (weight[2] * price), price, p.cash)
    IN  IF weight[1] = 0 THEN <<>>
        ELSE IF diff < 0 /\ sell > 0 THEN <<Action(ticker, "sell", sell, price)>>
        ELSE IF diff > 0 /\ buy > 0 THEN <<Action(ticker, "buy", buy, price)>>
        ELSE <<>>

RECURSIVE RebalanceOrders(_, _, _, _, _)
RebalanceOrders(strategies, p, d, date, total) ==
    IF strategies = <<>> THEN <<>>
    ELSE RebalanceOrder(Head(strategies).ticker,
                        Head(strategies).strategy.portfolio_weight, p,
                        AsOfPrice(d[Head(strategies).ticker], date), total)
         \o RebalanceOrders(Tail(strategies), p, d, date, total)

IsSell(a) == a.type = "sell"
IsBuy(a) == a.type = "buy"

\* A rebalance that returns its orders in document order.
RebalanceUnsorted(strategies, p, d, date) ==
    IF \E t \in Tickers :
         /\ CutData(d[t], date) = {}
         /\ \/ p.stock_count[t] > 0
            \/ \E i \in DOMAIN strategies :
                 /\ strategies[i].ticker = t
                 /\ strategies[i].strategy.portfolio_weight[1] # 0
    THEN [raised |-> "InsufficientDataError", actions |-> <<>>]
    ELSE [raised |-> "none",
          actions |-> RebalanceOrders(strategies, p, d, date,
                                      TotalValue(p, d, date, Len(TickerOrder)))]

\* rebalance(portfolio, stocks, date): sells before buys.
Rebalance(strategies, p, d, date) ==
    IF \E t \in Tickers :
         /\ CutData(d[t], date) = {}
         /\ \/ p.stock_count[t] > 0
            \/ \E i \in DOMAIN strategies :
                 /\ strategies[i].ticker = t
                 /\ strategies[i].strategy.portfolio_weight[1] # 0
    THEN [raised |-> "InsufficientDataError", actions |-> <<>>]
    ELSE LET orders == RebalanceOrders(strategies, p, d, date,
                                       TotalValue(p, d, date, Len(TickerOrder)))
         IN  [raised |-> "none",
              actions |-> SelectSeq(orders, IsSell) \o SelectSeq(orders, IsBuy)]

\* What apply returns from the result of its per-ticker rules and that of
\* the rebalance: an error of either, or the rule orders followed by the
\* rebalance orders.
Appended(ruled, rebalanced) ==
    IF ruled.raised # "none" THEN ruled
    ELSE IF rebalanced.raised # "none"
    THEN [raised |-> rebalanced.raised, actions |-> <<>>,
          steps |-> ruled.steps]
    ELSE [raised |-> "none",
          actions |-> ruled.actions \o rebalanced.actions,
          steps |-> ruled.steps]

\* apply(portfolio, stocks, date) of the evaluator that rebalances: the
\* orders of the per-ticker rules, then, when the rebalance is due, the
\* rebalance orders, all sized against the portfolio the call was given.
ApplyRebalancing(strategies, p, d, date, capital, due) ==
    Appended(Apply([raised |-> "none", actions |-> <<>>, steps |-> <<>>],
                   strategies, p, d, date, capital),
             IF due THEN Rebalance(strategies, p, d, date)
             ELSE [raised |-> "none", actions |-> <<>>])

(***************************************************************************)
(* The Rule Evaluator called by itself, as the tests call it: on frames    *)
(* built by hand and a portfolio filled by hand.                           *)
(***************************************************************************)
Tables == {"moving", "flat"}

\* moving: A has a row every day, B from day 2 on.  flat: both every day.
TableInIndex(table, t, d) == table = "flat" \/ t = "A" \/ d >= 2
TableClose(table, t, d) ==
    IF table = "flat" THEN 100
    ELSE IF t = "B" THEN 2 + (d % 2)
    ELSE IF d = 1 THEN 25
    ELSE IF d = 2 THEN 28
    ELSE IF d = 3 THEN 27
    ELSE 29
TableOpen(table, t, d) ==
    IF table = "flat" THEN 100
    ELSE IF t = "B" THEN TableClose(table, t, d) + 1
    ELSE TableClose(table, t, d) - 1

\* The frame of one ticker, with Change as data_processing derives it.
Frame(table, t) ==
    [d \in Days |->
        IF ~TableInIndex(table, t, d) THEN AbsentRow
        ELSE LET before == {e \in Days : e < d /\ TableInIndex(table, t, e)}
             IN  [inIndex |-> TRUE,
                  Close |-> Num(TableClose(table, t, d)),
                  Open |-> Num(TableOpen(table, t, d)),
                  Change |-> IF before = {} THEN NaN
                             ELSE Num(TableClose(table, t, d)
                                      - TableClose(table, t, Max(before)))]]

\* Portfolio(cash, tickers) with the holdings set by hand.
Held(cash, countA, basisA, countB, basisB) ==
    [cash |-> cash,
     stock_count |-> [t \in Tickers |-> IF t = "A" THEN countA ELSE countB],
     buy_value |-> [t \in Tickers |-> IF t = "A" THEN basisA ELSE basisB]]

Case(table, capital, p) ==
    [table |-> table, initial_capital |-> capital, portfolio |-> p]

Cases ==
    { Case("moving", 30, NewPortfolio(30)),
      Case("moving", 2000, Held(10, 5, <<25, 1>>, 5, <<2, 1>>)),
      Case("moving", 2000, Held(750, 50, <<25, 1>>, 0, Zero)),
      Case("moving", 2000, Held(2, 0, Zero, 100, <<5, 2>>)),
      Case("flat", 10000, NewPortfolio(10000)),
      Case("flat", 10000, Held(0, 80, <<100, 1>>, 20, <<100, 1>>)),
      Case("flat", 10000, Held(0, 100, <<100, 1>>, 0, Zero)),
      Case("flat", 10000, Held(1000, 20, <<100, 1>>, 70, <<100, 1>>)) }

\* The rules of the documents.  Triggers vary the indicator, the window and
\* the threshold of a rule of 5 shares at Close; sizings vary the quantity
\* and the execution price field of a rule that fires on any row (Close is
\* at least 2).
Indicators ==
    {<<<<"current", f>>, Window(1)>> : f \in {"Close", "Change"}}
    \cup {<<<<"average", f>>, w>> :
            f \in {"Close", "Change"},
            w \in {Window(1), Window(2), Window(3), FullHistory}}
Thresholds ==
    {<<"percent-change", v>> : v \in {-1, 0, 2, 28}}
    \cup {<<"point", v>> : v \in {-2, 0, 3}}
    \cup {<<"profit-rate", v>> : v \in {-50, 0, 12}}
Quantities ==
    {<<"count", 5>>, <<"count", 0>>, <<"percent", 50>>, <<"percent", 58>>,
     <<"percent", 100>>, <<"value", 60>>, <<"split", 10>>}
PriceFields == {"Close", "Open"}

Triggers(ref) ==
    {TradeAction(ref, i[1], i[2], th, <<"count", 5>>, "Close") :
        i \in Indicators, th \in Thresholds}
Sizings(ref) ==
    {TradeAction(ref, <<"current", "Close">>, Window(1),
                 <<"percent-change", 2>>, q, f) :
        q \in Quantities, f \in PriceFields}
Never(ref, trade_as) ==
    TradeAction(ref, <<"current", "Close">>, Window(1),
                <<"percent-change", -1>>, <<"count", 5>>, trade_as)

Half == <<1, 2>>
Entry(ticker, strategy) == [ticker |-> ticker, strategy |-> strategy]

\* The config of two rules; one that sizes by split carries a weight.
Config(buy, sell) ==
    IF "split" \in {buy.quantity[1], sell.quantity[1]}
    THEN WeightedConfig(buy, sell, Half)
    ELSE StrategyConfig(buy, sell)

\* One-ticker documents: one side is a rule under study, the other a rule
\* that never fires.
Documents ==
    UNION {
        {<<Entry(t, Config(r, Never(t, f)))>> :
            r \in Triggers(ref) \cup Sizings(t), f \in PriceFields}
        \cup
        {<<Entry(t, Config(Never(t, f), r))>> :
            r \in Triggers(ref) \cup Sizings(t), f \in PriceFields}
        : t \in Tickers, ref \in Tickers }

\* One-ticker documents whose two rules both fire, priced at the same field.
TwoSided ==
    UNION {
        {<<Entry(t, Config(b, s))>> :
            b \in {r \in Sizings(t) : r.trade_as = "Close"},
            s \in {r \in Sizings(t) : r.trade_as = "Close"}}
        : t \in Tickers }

\* A ticker that has no Stock among the stocks.
Unloaded == "C"

Always(ref) ==
    TradeAction(ref, <<"current", "Close">>, Window(1),
                <<"percent-change", 2>>, <<"count", 5>>, "Close")

\* An item that trades or refers to the unloaded ticker, as its traded
\* ticker, its buy rule's reference or its sell rule's reference.
Orphans ==
    { Entry(Unloaded, StrategyConfig(Always("A"), Always("A"))),
      Entry("B", StrategyConfig(Always(Unloaded), Always("B"))),
      Entry("B", StrategyConfig(Always("B"), Always(Unloaded))) }

\* Documents with such an item: alone, after and before an item whose rules
\* fire.
MissingData ==
    LET fires == Entry("A", StrategyConfig(Always("A"), Always("A")))
    IN  {<<o>> : o \in Orphans}
        \cup {<<fires, o>> : o \in Orphans}
        \cup {<<o, fires>> : o \in Orphans}

\* Rules with a value the evaluator does not know: for the indicator mode
\* (median, and percentage, which the schema lists), for the threshold kind
\* and for the quantity mode, on a rule that fires and on one that does not.
Unknowns(ref) ==
    { TradeAction(ref, <<"median", "Close">>, Window(1),
                  <<"percent-change", 2>>, <<"count", 5>>, "Close"),
      TradeAction(ref, <<"percentage", "Close">>, Window(1),
                  <<"percent-change", 2>>, <<"count", 5>>, "Close"),
      TradeAction(ref, <<"current", "Close">>, Window(1),
                  <<"ratio", 2>>, <<"count", 5>>, "Close"),
      TradeAction(ref, <<"current", "Close">>, Window(1),
                  <<"percent-change", 2>>, <<"shares", 5>>, "Close"),
      TradeAction(ref, <<"current", "Close">>, Window(1),
                  <<"percent-change", -1>>, <<"shares", 5>>, "Close") }

Malformed ==
    {<<Entry("A", StrategyConfig(r, Never("A", "Close")))>> : r \in Unknowns("A")}
    \cup
    {<<Entry("A", StrategyConfig(Never("A", "Close"), r))>> : r \in Unknowns("A")}

\* Two-ticker documents with target weights, as test_rebalancing builds them.
Weights ==
    {<<<<7, 10>>, <<3, 10>>>>, <<Half, Half>>, <<<<3, 10>>, <<7, 10>>>>,
     <<Zero, One>>}
Weighted ==
    {<<Entry("A", WeightedConfig(Never("A", "Close"), Never("A", "Close"),
                                 w[1])),
       Entry("B", WeightedConfig(Never("B", "Close"), Never("B", "Close"),
                                 w[2]))>> :
        w \in Weights}

\* Two-ticker documents with target weights and rules that fire, in both
\* insertion orders; the first item has both rules, its buy rule only or its
\* sell rule only, the second both.
Sides(t) ==
    { <<Always(t), Always(t)>>, <<Always(t), Never(t, "Close")>>,
      <<Never(t, "Close"), Always(t)>> }
Pairs ==
    UNION {
        {<<Entry(o[1], WeightedConfig(r[1], r[2], w[1])),
           Entry(o[2], WeightedConfig(Always(o[2]), Always(o[2]), w[2]))>> :
            r \in Sides(o[1]), w \in Weights}
        : o \in {<<"A", "B">>, <<"B", "A">>} }

EvalInit ==
    \E c \in Cases :
        /\ initial_capital = c.initial_capital
        /\ portfolio = c.portfolio
        /\ trades = <<>>
        /\ data = [t \in Tickers |-> Frame(c.table, t)]
        /\ dates = GetCommonDates(data)
        /\ value_over_time = [d \in {} |-> NaN]
        /\ daily_snapshots = <<>>
        /\ pc = "eval"
        /\ run_dates = <<>>
        /\ di = 1
        /\ value = NoValue
        /\ NoCall(portfolio, trades)
        /\ applied = NoApply
        /\ managers = <<"s1">>
        /\ si = 1
        /\ runs = 0
        /\ shelf = [s \in Range(managers) |-> NoResults]
        /\ monthly_df = NotAsked

\* StrategyWrapper.model_validate(document) raises ValidationError: there
\* is no StrategyManager to call.
Reject ==
    /\ pc = "eval"
    /\ \E strategies \in Malformed :
        /\ ~ModelValidate(strategies)
        /\ applied' = [call |-> "model_validate", strategies |-> strategies,
                       date |-> None, raised |-> "ValidationError",
                       actions |-> <<>>, steps |-> <<>>]
    /\ pc' = "rejected"
    /\ UNCHANGED <<loop, monthly_df, initial_capital, portfolio, trades, data, dates,
                   value_over_time, daily_snapshots, run_dates, di, value,
                   call>>

\* StrategyManager(name, StrategyWrapper.model_validate(document));
\* stock_data = [stock.cut_data(stock.start, date) ...];
\* actions = strategy.apply(self.portfolio, stock_data, date)
CallApply ==
    /\ pc = "eval"
    /\ \E strategies \in Documents \cup TwoSided \cup MissingData
                          \cup Malformed \cup Pairs,
          date \in Days :
        /\ ModelValidate(strategies)
        /\ \E r \in {Apply([raised |-> "none", actions |-> <<>>,
                            steps |-> <<>>],
                           strategies, portfolio, data, date,
                           initial_capital)} :
               applied' = [call |-> "apply", strategies |-> strategies,
                           date |-> date, raised |-> r.raised,
                           actions |-> r.actions, steps |-> r.steps]
    /\ pc' = "applied"
    /\ UNCHANGED <<loop, monthly_df, initial_capital, portfolio, trades, data, dates,
                   value_over_time, daily_snapshots, run_dates, di, value,
                   call>>

\* rebalance_actions = manager.rebalance(portfolio, stocks, date)
CallRebalance ==
    /\ pc = "eval"
    /\ \E strategies \in Weighted, date \in Days :
       \E r \in {Rebalance(strategies, portfolio, data, date)} :
           applied' = [call |-> "rebalance", strategies |-> strategies,
                       date |-> date, raised |-> r.raised,
                       actions |-> r.actions, steps |-> <<>>]
    /\ pc' = "applied"
    /\ UNCHANGED <<loop, monthly_df, initial_capital, portfolio, trades, data, dates,
                   value_over_time, daily_snapshots, run_dates, di, value,
                   call>>

\* actions_15th = manager.apply(portfolio, [stock_a, stock_b], date_15th):
\* apply on a date when the rebalance is due.
CallApplyRebalancing ==
    /\ pc = "eval"
    /\ \E strategies \in Pairs \cup Weighted, date \in Days :
       \E r \in {ApplyRebalancing(strategies, portfolio, data, date,
                                  initial_capital, TRUE)} :
           applied' = [call |-> "apply_rebalancing", strategies |-> strategies,
                       date |-> date, raised |-> r.raised,
                       actions |-> r.actions, steps |-> r.steps]
    /\ pc' = "applied"
    /\ UNCHANGED <<loop, monthly_df, initial_capital, portfolio, trades, data, dates,
                   value_over_time, daily_snapshots, run_dates, di, value,
                   call>>

\* One date of run(): actions = strategy.apply(self.portfolio, stock_data,
\* date); self.execute_action(actions, date, strategy).  due tells whether
\* the rebalance is due on this date; an error of apply ends the call before
\* execute_action.
RunDate ==
    /\ pc = "eval"
    /\ \E due \in BOOLEAN :
       \E strategies \in IF due THEN Pairs ELSE Pairs \cup TwoSided,
          date \in Days :
       \E r \in {ApplyRebalancing(strategies, portfolio, data, date,
                                  initial_capital, due)} :
           /\ applied' = [call |-> IF due THEN "run_rebalancing" ELSE "run",
                          strategies |-> strategies, date |-> date,
                          raised |-> r.raised, actions |-> r.actions,
                          steps |-> r.steps]
           /\ IF r.raised # "none"
              THEN /\ pc' = "raised"
                   /\ UNCHANGED <<portfolio, trades, call>>
              ELSE \E x \in {ExecuteAction(portfolio, trades, date,
                                           r.actions)} :
                       /\ portfolio' = x.portfolio
                       /\ trades' = x.trades
                       /\ outcome' = x.outcome
                       /\ ratio' = x.ratio
                       /\ mid' = x.mid
                       /\ filled' = x.filled
                       /\ path' = x.path
                       /\ actions' = r.actions
                       /\ pre' = Snap(portfolio, trades)
                       /\ pc' = IF x.outcome = "raised" THEN "raised"
                                ELSE "executed"
    /\ UNCHANGED <<loop, monthly_df, initial_capital, data, dates,
                   value_over_time, daily_snapshots, run_dates, di, value>>

EvalNext ==
    Reject \/ CallApply \/ CallRebalance \/ CallApplyRebalancing \/ RunDate

EvalSpec == EvalInit /\ [][EvalNext]_vars


(***************************************************************************)
(* Vocabulary of the properties                                            *)
(***************************************************************************)
\* The last execute_action call returned normally.
Returned == outcome \in {"no_buys", "no_cash", "bought"}

\* The trade records the last call appended.
NewTrades == SubSeq(trades, Len(pre.trades) + 1, Len(trades))

\* The portfolio before the k-th executed order of the last call (k >= 1) and
\* after it.
Before(k) == IF k = 1 THEN pre.portfolio ELSE path[k - 1]
After(k) == path[k]

RECURSIVE Proceeds(_)
Proceeds(ss) ==
    IF ss = <<>> THEN 0
    ELSE Head(ss).quantity * Head(ss).price + Proceeds(Tail(ss))

RECURSIVE Spent(_, _)
Spent(bs, qs) ==
    IF bs = <<>> THEN 0
    ELSE Head(qs) * Head(bs).price + Spent(Tail(bs), Tail(qs))

(***************************************************************************)
(* C1  Cash non-negativity: from a fresh portfolio with initial capital    *)
(* >= 0, whatever batches (buys and sells at non-negative prices) have     *)
(* been executed without a fatal error, cash is >= 0 after every batch.    *)
(***************************************************************************)
C1_CashNonNegative == pc # "raised" => portfolio.cash >= 0

\* A batch with a sell and a buy has spent the cash to the last unit.
C1_Witness ==
    /\ outcome = "bought"
    /\ Sells(actions) # <<>>
    /\ \E k \in DOMAIN filled : filled[k] > 0
    /\ portfolio.cash = 0
    /\ pre.portfolio.cash < Spent(Buys(actions), filled)

(***************************************************************************)
(* C2  Share non-negativity: the share count of every ticker is >= 0 after *)
(* every batch and after each single order of a batch.                     *)
(***************************************************************************)
C2_SharesNonNegative ==
    \A t \in Tickers :
        /\ portfolio.stock_count[t] >= 0
        /\ \A k \in DOMAIN path : path[k].stock_count[t] >= 0

\* A sell has closed a position in the middle of a batch, and a later order
\* of the same batch has run after it.
C2_Witness ==
    \E t \in Tickers : \E k \in DOMAIN path :
        /\ k < Len(path)
        /\ Before(k).stock_count[t] > 0
        /\ After(k).stock_count[t] = 0

(***************************************************************************)
(* C3  Proportional fairness: when the total cost C of a batch's buys      *)
(* exceeds the cash A left by its sells, every buy executes exactly        *)
(* floor(requested quantity * A / C) shares and the total spent is <= A.   *)
(* The code takes the floor of the double product quantity * (A / C),      *)
(* which falls one short where quantity * A / C is an integer the product  *)
(* rounds below: this statement is violated.                               *)
(***************************************************************************)
C3_ProportionalFairness ==
    outcome = "bought" /\ TotalBuyCost(Buys(actions)) > mid.cash =>
        /\ \A k \in DOMAIN filled :
               filled[k] = FloorScaledExact(Buys(actions)[k].quantity, mid.cash,
                                            TotalBuyCost(Buys(actions)))
        /\ Spent(Buys(actions), filled) <= mid.cash

(***************************************************************************)
(* C4  Sell-before-buy: every sell of a batch is applied before any buy,   *)
(* wherever they stand in the batch: the cash the buys are admitted and    *)
(* scaled against is the cash at entry plus the proceeds of all the        *)
(* batch's sells, and every sell record of the batch precedes every buy    *)
(* record.                                                                 *)
(***************************************************************************)
C4_SellBeforeBuy ==
    Returned =>
        LET available == pre.portfolio.cash + Proceeds(Sells(actions))
            cost == TotalBuyCost(Buys(actions))
        IN  /\ mid.cash = available
            /\ outcome = "no_buys" <=> Buys(actions) = <<>>
            /\ outcome = "no_cash" <=>
                   Buys(actions) # <<>> /\ cost > available /\ available <= 0
            /\ outcome = "bought" =>
                   ratio = IF cost > available THEN <<available, cost>> ELSE One
            /\ \A i, j \in DOMAIN NewTrades :
                   NewTrades[i].type = "sell" /\ NewTrades[j].type = "buy"
                       => i < j

\* With no cash, a batch that lists its buy before its sell has paid the whole
\* buy out of the sale: the position sold is closed and cash is 0 again.
C4_Witness ==
    /\ outcome = "bought"
    /\ Len(actions) = 2
    /\ actions[1].type = "buy" /\ actions[2].type = "sell"
    /\ actions[1].ticker # actions[2].ticker
    /\ pre.portfolio.cash = 0
    /\ pre.portfolio.stock_count[actions[2].ticker] = actions[2].quantity
    /\ actions[1].quantity * actions[1].price > 0
    /\ filled = <<actions[1].quantity>>
    /\ portfolio.stock_count[actions[2].ticker] = 0
    /\ portfolio.cash = 0

\* The shares of ticker t the sells ss take.
RECURSIVE SoldOf(_, _)
SoldOf(ss, t) ==
    IF ss = <<>> THEN 0
    ELSE (IF Head(ss).ticker = t THEN Head(ss).quantity ELSE 0)
         + SoldOf(Tail(ss), t)

\* The sells of the last batch that stand before its k-th sell.
SellsBefore(k) == SubSeq(Sells(actions), 1, k - 1)

\* The k-th sell of the last batch asks for more than is held when its turn
\* comes.
Oversells(k) ==
    LET a == Sells(actions)[k]
    IN  pre.portfolio.stock_count[a.ticker] - SoldOf(SellsBefore(k), a.ticker)
            < a.quantity

(***************************************************************************)
(* C5 (as stated)  Oversell is fatal and atomic: after the fatal error the *)
(* portfolio and the trade log are exactly as they were before the batch.  *)
(* Violated: the sells that precede the overselling order stay applied.    *)
(***************************************************************************)
C5_OversellAtomic ==
    outcome = "raised" => portfolio = pre.portfolio /\ trades = pre.trades

(***************************************************************************)
(* C5 (amended)  Oversell is fatal: the first sell of a batch, in batch    *)
(* order, that asks for more shares than are held at its turn ends         *)
(* execute_action with a fatal error.  That order, every later sell and    *)
(* every buy change nothing; the sells before it stay applied and logged.  *)
(* The portfolio and the trade log are exactly as before the batch when    *)
(* the overselling order is the batch's first sell.                        *)
(***************************************************************************)
C5_OversellFatal ==
    /\ outcome = "raised" <=> pc = "raised"
    /\ outcome # "raised" =>
           \A k \in DOMAIN Sells(actions) : ~Oversells(k)
    /\ outcome = "raised" =>
           \E k \in DOMAIN Sells(actions) :
               /\ Oversells(k)
               /\ \A j \in 1..(k - 1) : ~Oversells(j)
               /\ portfolio.cash = pre.portfolio.cash + Proceeds(SellsBefore(k))
               /\ \A t \in Tickers :
                      /\ portfolio.stock_count[t] =
                            pre.portfolio.stock_count[t] - SoldOf(SellsBefore(k), t)
                      /\ portfolio.buy_value[t] =
                            IF portfolio.stock_count[t] = 0 THEN Zero
                            ELSE pre.portfolio.buy_value[t]
               /\ Len(NewTrades) = k - 1
               /\ \A i \in 1..(k - 1) :
                      NewTrades[i] =
                          Trade(run_dates[di], SellsBefore(k)[i],
                                SellsBefore(k)[i].quantity)
               /\ k = 1 => portfolio = pre.portfolio /\ trades = pre.trades

\* The fatal error came after a sell of the same batch had been applied, in a
\* batch that also asked for a buy.
C5_Witness ==
    /\ outcome = "raised"
    /\ Len(NewTrades) >= 1
    /\ portfolio.cash > pre.portfolio.cash
    /\ Buys(actions) # <<>>

(***************************************************************************)
(* C6  Per-order accounting: each executed sell of q shares at price p     *)
(* adds q*p to cash and takes q from the ticker's share count, each        *)
(* executed buy of q at p takes q*p from cash and adds q to the ticker's   *)
(* share count, and the share counts and cost bases of all other tickers   *)
(* are unchanged.  Every executed order has one trade record; the          *)
(* portfolio is the one the last executed order left.                      *)
(***************************************************************************)
C6_PerOrderAccounting ==
    /\ Len(path) = Len(NewTrades)
    /\ portfolio = IF path = <<>> THEN pre.portfolio ELSE path[Len(path)]
    /\ \A k \in DOMAIN path :
           LET r == NewTrades[k]
               sign == IF r.type = "sell" THEN 1 ELSE -1
           IN  /\ r.type \in {"sell", "buy"}
               /\ r.quantity > 0
               /\ After(k).cash = Before(k).cash + sign * r.quantity * r.price
               /\ After(k).stock_count[r.ticker] =
                      Before(k).stock_count[r.ticker] - sign * r.quantity
               /\ \A t \in Tickers \ {r.ticker} :
                      /\ After(k).stock_count[t] = Before(k).stock_count[t]
                      /\ After(k).buy_value[t] = Before(k).buy_value[t]

\* One batch has executed a sell and a buy at prices above zero while the
\* other ticker of each order held shares with a cost basis.
C6_Witness ==
    \E i, j \in DOMAIN path :
        /\ NewTrades[i].type = "sell" /\ NewTrades[i].price > 0
        /\ NewTrades[j].type = "buy" /\ NewTrades[j].price > 0
        /\ \E t \in Tickers \ {NewTrades[i].ticker} :
               Before(i).stock_count[t] > 0 /\ Before(i).buy_value[t] # Zero
        /\ \E t \in Tickers \ {NewTrades[j].ticker} :
               Before(j).stock_count[t] > 0 /\ Before(j).buy_value[t] # Zero

(***************************************************************************)
(* C7  Cost-basis recurrence: after an executed buy of q shares at price p *)
(* into a position of n shares with basis b, the ticker's cost basis is    *)
(* (n*b + q*p) / (n + q).  Bases are fractions <<numerator, denominator>>, *)
(* so the equation is cross-multiplied.                                    *)
(***************************************************************************)
C7_CostBasisRecurrence ==
    \A k \in DOMAIN path :
        NewTrades[k].type = "buy" =>
            LET q == NewTrades[k].quantity
                price == NewTrades[k].price
                n == Before(k).stock_count[NewTrades[k].ticker]
                b == Before(k).buy_value[NewTrades[k].ticker]
                new == After(k).buy_value[NewTrades[k].ticker]
            IN  /\ new[2] > 0
                /\ new[1] * b[2] * (n + q) = new[2] * (n * b[1] + q * price * b[2])

\* A buy has joined an open position bought at another price: the new basis
\* lies strictly between the old basis and the price.
C7_Witness ==
    \E k \in DOMAIN path :
        LET t == NewTrades[k].ticker
            b == Before(k).buy_value[t]
            new == After(k).buy_value[t]
        IN  /\ NewTrades[k].type = "buy"
            /\ Before(k).stock_count[t] > 0
            /\ b[1] # NewTrades[k].price * b[2]
            /\ new # b
            /\ new[1] # NewTrades[k].price * new[2]

(***************************************************************************)
(* C8  In every state reachable from a fresh portfolio through             *)
(* execute_action batches, and after every single order, a ticker whose    *)
(* share count is 0 has cost basis 0.                                      *)
(***************************************************************************)
C8_ZeroSharesZeroBasis ==
    \A t \in Tickers :
        /\ portfolio.stock_count[t] = 0 => portfolio.buy_value[t] = Zero
        /\ \A k \in DOMAIN path :
               path[k].stock_count[t] = 0 => path[k].buy_value[t] = Zero

\* A sell has closed a position that had a cost basis above zero.
C8_Witness ==
    \E k \in DOMAIN path :
        /\ NewTrades[k].type = "sell"
        /\ Before(k).buy_value[NewTrades[k].ticker] # Zero
        /\ After(k).stock_count[NewTrades[k].ticker] = 0
        /\ After(k).buy_value[NewTrades[k].ticker] = Zero

\* The downloaded history of ticker t has a row at or before the date.
HasRawRow(t, date) == \E e \in Days : e <= date /\ RawInIndex(t, e)

\* The Close of the latest downloaded row of ticker t at or before the date.
RawAsofClose(t, date) ==
    RawClose(t, Max({e \in Days : e <= date /\ RawInIndex(t, e)}))

RECURSIVE Holdings(_, _, _)
Holdings(stock_count, date, k) ==
    IF k = 0 THEN 0
    ELSE Holdings(stock_count, date, k - 1)
         + stock_count[TickerOrder[k]] * RawAsofClose(TickerOrder[k], date)

\* cash + the sum over the tickers of shares * as-of Close.
Identity(cash, stock_count, date) ==
    Num(cash + Holdings(stock_count, date, Len(TickerOrder)))

(***************************************************************************)
(* C9  Valuation identity: for every date at which each ticker has a Close *)
(* at or before it, get_protfolio_value(date) is cash + the sum over the   *)
(* tickers of shares * Close of the latest row at or before the date, for  *)
(* the value a caller asks for and for the Total_Value of every daily      *)
(* snapshot.  The code answers NaN on the date of a ticker's first row,    *)
(* whose Change is NaN: this statement is violated.                        *)
(***************************************************************************)
C9_ValuationIdentity ==
    /\ value # NoValue /\ (\A t \in Tickers : HasRawRow(t, value.date)) =>
           value.result = Identity(portfolio.cash, portfolio.stock_count,
                                   value.date)
    /\ \A i \in DOMAIN daily_snapshots :
           LET s == daily_snapshots[i]
           IN  s.Total_Value = Identity(s.Cash, s.Stock_Amount, s.date)

(***************************************************************************)
(* C10 (as stated)  No-cash skip: if the cash available after a batch's    *)
(* sells is <= 0, no buy of the batch is executed, no buy trade is         *)
(* recorded, no error is raised, and the portfolio stays as the sells left *)
(* it.  Violated: with cash 0 a batch of buys whose total cost is 0 is     *)
(* executed.                                                               *)
(***************************************************************************)
C10_NoCashSkip ==
    Returned /\ mid.cash <= 0 =>
        /\ portfolio = mid
        /\ \A i \in DOMAIN NewTrades : NewTrades[i].type # "buy"

(***************************************************************************)
(* C10 (amended)  No-cash skip: if the cash available after a batch's      *)
(* sells is <= 0 and the total cost of the batch's buys exceeds it, no buy *)
(* of the batch is executed, no buy trade is recorded, no error is raised, *)
(* run() goes on to record the date, and the portfolio stays exactly as    *)
(* the sells left it.  The buys are skipped this way in no other case.     *)
(***************************************************************************)
C10_NoCashSkipWhenCostExceeds ==
    LET available == pre.portfolio.cash + Proceeds(Sells(actions))
        skipped == /\ Buys(actions) # <<>>
                   /\ available <= 0
                   /\ TotalBuyCost(Buys(actions)) > available
    IN  /\ Returned /\ skipped =>
               /\ outcome = "no_cash"
               /\ pc = "record"
               /\ portfolio = mid
               /\ filled = <<>>
               /\ Len(NewTrades) = Len(Sells(actions))
               /\ \A i \in DOMAIN NewTrades : NewTrades[i].type = "sell"
        /\ outcome = "no_cash" => skipped
        /\ outcome = "bought" /\ available <= 0 =>
               /\ available = 0
               /\ TotalBuyCost(Buys(actions)) = 0
               /\ \A k \in DOMAIN filled : filled[k] = Buys(actions)[k].quantity

\* With no cash, a batch has sold shares for nothing and asked for a buy that
\* costs money: the sell is applied and the buy is skipped.
C10_Witness ==
    /\ outcome = "no_cash"
    /\ Sells(actions) # <<>>
    /\ mid # pre.portfolio
    /\ mid.cash = 0
    /\ portfolio = mid
    /\ pc = "record"

\* The money the records of one side move, and the shares of ticker t they
\* move.
RECURSIVE LogValue(_, _)
LogValue(log, type) ==
    IF log = <<>> THEN 0
    ELSE (IF Head(log).type = type THEN Head(log).quantity * Head(log).price
          ELSE 0) + LogValue(Tail(log), type)

RECURSIVE LogShares(_, _, _)
LogShares(log, type, t) ==
    IF log = <<>> THEN 0
    ELSE (IF Head(log).type = type /\ Head(log).ticker = t
          THEN Head(log).quantity ELSE 0) + LogShares(Tail(log), type, t)

\* The records of one side, in log order.
RECURSIVE LogOf(_, _)
LogOf(log, type) ==
    IF log = <<>> THEN <<>>
    ELSE (IF Head(log).type = type THEN <<Head(log)>> ELSE <<>>)
         \o LogOf(Tail(log), type)

\* The records the buys bs owe the log when they executed the quantities qs:
\* one per buy that executed at least one share.
RECURSIVE BuyRecords(_, _, _)
BuyRecords(date, bs, qs) ==
    IF bs = <<>> \/ qs = <<>> THEN <<>>
    ELSE (IF Head(qs) > 0 THEN <<Trade(date, Head(bs), Head(qs))>> ELSE <<>>)
         \o BuyRecords(date, Tail(bs), Tail(qs))

\* The orders of the batch with a quantity above zero, of one side.
Asked(type) ==
    {i \in DOMAIN actions : actions[i].type = type /\ actions[i].quantity > 0}

(***************************************************************************)
(* C11  The trade log is a faithful audit trail: it holds exactly one      *)
(* record per executed order, with the executed (post-scaling) quantity    *)
(* and the order's price, and none for dropped or skipped orders; at all   *)
(* times cash = initial capital + sum(sell qty*price) - sum(buy qty*price) *)
(* and each ticker's shares = sum(buy qty) - sum(sell qty) over the log.   *)
(***************************************************************************)
C11_TradeLogAudit ==
    /\ portfolio.cash = initial_capital + LogValue(trades, "sell")
                                        - LogValue(trades, "buy")
    /\ \A t \in Tickers :
           portfolio.stock_count[t] = LogShares(trades, "buy", t)
                                      - LogShares(trades, "sell", t)
    /\ Len(NewTrades) = Len(path)
    /\ outcome # "none" =>
           /\ Len(LogOf(NewTrades, "sell")) <= Cardinality(Asked("sell"))
           /\ Returned =>
                  Len(LogOf(NewTrades, "sell")) = Cardinality(Asked("sell"))
           /\ \A i \in DOMAIN LogOf(NewTrades, "sell") :
                  \E j \in Asked("sell") :
                      LogOf(NewTrades, "sell")[i] =
                          [date |-> run_dates[di], ticker |-> actions[j].ticker,
                           type |-> "sell", quantity |-> actions[j].quantity,
                           price |-> actions[j].price]
           /\ Len(filled) <= Cardinality(Asked("buy"))
           /\ LogOf(NewTrades, "buy") =
                  BuyRecords(run_dates[di], Buys(actions), filled)

\* The log has taken the scaled buy of a batch that also held an order with
\* a quantity below one and a buy scaled to nothing, after an earlier batch.
C11_Witness ==
    /\ outcome = "bought"
    /\ pre.trades # <<>>
    /\ Len(NewTrades) = 1
    /\ \E i \in DOMAIN actions : actions[i].quantity <= 0
    /\ \E k \in DOMAIN filled : filled[k] = 0
    /\ \E k \in DOMAIN filled :
           filled[k] > 0 /\ filled[k] < Buys(actions)[k].quantity

(***************************************************************************)
(* Vocabulary of the Rule Evaluator claims                                 *)
(***************************************************************************)
\* apply() has returned its orders.
Applied == applied.call = "apply" /\ applied.raised = "none"

\* The positions of the returned orders of one side for one traded ticker.
OrdersOf(type, ticker) ==
    {i \in DOMAIN applied.actions :
        applied.actions[i].type = type /\ applied.actions[i].ticker = ticker}

\* C12: a rule whose threshold value is <= 0 produces its order exactly when
\* the indicator is <= the baseline, and a rule whose threshold value is > 0
\* exactly when the indicator is >= the baseline; buy and sell rules alike.
C12_ThresholdDirection ==
    Applied =>
        \A k \in DOMAIN applied.steps :
            LET s == applied.steps[k]
            IN  (OrdersOf(s.type, s.ticker) # {}) <=>
                    \/ /\ s.rule.criteria[2] <= 0
                       /\ LessEq(s.compare_value, s.criteria)
                    \/ /\ s.rule.criteria[2] > 0
                       /\ GreaterEq(s.compare_value, s.criteria)

\* A sell rule with a positive threshold fires on an indicator above its
\* baseline while the buy rule, with a negative one, stays silent on an
\* indicator above its own.
C12_Witness ==
    /\ Applied
    /\ \E k, j \in DOMAIN applied.steps :
        /\ applied.steps[k].type = "sell"
        /\ applied.steps[k].rule.criteria[2] > 0
        /\ applied.steps[k].fired
        /\ ~LessEq(applied.steps[k].compare_value, applied.steps[k].criteria)
        /\ OrdersOf("sell", applied.steps[k].ticker) # {}
        /\ applied.steps[j].type = "buy"
        /\ applied.steps[j].rule.criteria[2] < 0
        /\ ~applied.steps[j].fired
        /\ ~applied.steps[j].compare_value.nan
        /\ OrdersOf("buy", applied.steps[j].ticker) = {}

\* The baseline of one rule as the arithmetic of the threshold kinds gives
\* it, from the cost basis of the traded ticker.
Baseline(crit, basis) ==
    IF crit[1] = "percent-change" THEN <<crit[2], 1>>
    ELSE IF crit[1] = "point" THEN Frac(basis[1] + crit[2] * basis[2], basis[2])
    ELSE Frac(basis[1] * (100 + crit[2]), basis[2] * 100)

\* C13: the baseline a rule is compared with comes from the cost basis of
\* the traded ticker: the threshold value for percent-change, basis + value
\* for point, basis * (100 + value) / 100 for profit-rate.
C13_ThresholdBaseline ==
    Applied =>
        \A k \in DOMAIN applied.steps :
            LET s == applied.steps[k]
            IN  s.criteria =
                    Float(Baseline(s.rule.criteria,
                                   portfolio.buy_value[s.ticker]), 0)

\* The mean of the cells of the given rows that are not NaN.
MeanOver(series, rows, field) ==
    LET seen == {d \in rows : ~series[d][field].nan}
    IN  IF seen = {} THEN FNaN
        ELSE Float(Frac(SumCells(series, seen, field), Cardinality(seen)), 0)

\* The indicator of a rule on a slice that has a row: the value of the field
\* on the last row, or its mean over the last window rows, or over all rows
\* for the full-history window.
Indicator(rule, series, rows) ==
    IF rule.by[1] = "current" THEN Cell(series[Max(rows)][rule.by[2]])
    ELSE IF rule.period.isbool THEN MeanOver(series, rows, rule.by[2])
    ELSE MeanOver(series,
                  {d \in rows : Cardinality({e \in rows : e > d}) < rule.period.n},
                  rule.by[2])

\* Every ticker a document trades or refers to has a row at or before date.
HasRows(strategies, date) ==
    \A i \in DOMAIN strategies :
        \A t \in {strategies[i].ticker, strategies[i].strategy.buy.ticker,
                  strategies[i].strategy.sell.ticker} :
            t \in DOMAIN data /\ CutData(data[t], date) # {}

\* C14: on slices that have a row the evaluation returns, and the indicator
\* of each rule is read from its reference ticker as of the date: the last
\* row's value for current, the mean over the last window rows (fewer when
\* the slice is shorter) for an integer window, the mean over the whole
\* slice for the full-history window.
C14_IndicatorComputation ==
    applied.call = "apply" /\ HasRows(applied.strategies, applied.date) =>
        /\ applied.raised = "none"
        /\ \A k \in DOMAIN applied.steps :
            LET s == applied.steps[k]
            IN  s.compare_value =
                    Indicator(s.rule, data[s.rule.ticker],
                              CutData(data[s.rule.ticker], applied.date))

\* C15: every order of a returned call is priced at the value, on the traded
\* ticker's last row as of the date, of the execution price field of the
\* rule that produced it: the buy rule's for a buy, the sell rule's for a
\* sell, whatever the rule's reference ticker.
C15_OrderPrice ==
    Applied =>
        \A k \in DOMAIN applied.steps :
            LET s == applied.steps[k]
            IN  \A i \in OrdersOf(s.type, s.ticker) :
                    applied.actions[i].price =
                        data[s.ticker][Max(CutData(data[s.ticker],
                                                   applied.date))]
                            [s.rule.trade_as].v

\* floor(held * value / 100), at least 1 when shares are held and 0 when
\* none is.
PercentOf(held, percent) ==
    IF held > 0 THEN Max2((held * percent) \div 100, 1) ELSE 0

\* C16: the order of a rule sized by percent has the quantity
\* floor(held * value / 100) of the traded ticker's holding, raised to 1 only
\* when shares are held and 0 when none is, cut like any order to what the
\* cash buys or to the shares held.
C16_PercentQuantity ==
    Applied =>
        \A k \in DOMAIN applied.steps :
            LET s == applied.steps[k]
                held == portfolio.stock_count[s.ticker]
                resolved == PercentOf(held, s.rule.quantity[2])
            IN  s.rule.quantity[1] = "percent" =>
                    \A i \in OrdersOf(s.type, s.ticker) :
                        applied.actions[i].quantity =
                            IF s.type = "sell" THEN Min2(resolved, held)
                            ELSE Min2(resolved, portfolio.cash \div s.price)

\* What a rule asks for before the clamp, for the modes that do not depend
\* on the holding.
Requested(rule, price) ==
    IF rule.quantity[1] = "count" THEN rule.quantity[2]
    ELSE rule.quantity[2] \div price

C18_SplitQuantity ==
    Applied =>
        \A k \in DOMAIN applied.steps :
            LET s == applied.steps[k]
                w == applied.strategies[1].strategy.portfolio_weight
                n == s.rule.quantity[2]
            IN  s.type = "buy" /\ s.rule.quantity[1] = "split" =>
                    \A i \in OrdersOf("buy", s.ticker) :
                        \E q \in 0..initial_capital :
                            /\ q * s.price * n * w[2] <= initial_capital * w[1]
                            /\ initial_capital * w[1]
                                   < (q + 1) * s.price * n * w[2]
                            /\ applied.actions[i].quantity
                                   = Min2(q, portfolio.cash \div s.price)

\* Initial capital 10000, N = 10, weight 1/2, price 100: a single buy of 5;
\* and the same 5 with 1000 in cash, where a slice of the cash buys none.
C18_Witness ==
    /\ Applied
    /\ initial_capital = 10000
    /\ portfolio.cash = 1000
    /\ Len(applied.actions) = 1
    /\ applied.actions[1].type = "buy"
    /\ applied.actions[1].quantity = 5
    /\ applied.actions[1].price = 100
    /\ applied.strategies[1].strategy.buy.quantity = <<"split", 10>>
    /\ applied.strategies[1].strategy.portfolio_weight = <<1, 2>>

\* rebalance() has returned its orders.
Rebalanced == applied.call = "rebalance" /\ applied.raised = "none"

\* The weight a document gives a ticker.
WeightOf(strategies, t) ==
    LET i == CHOOSE j \in DOMAIN strategies : strategies[j].ticker = t
    IN  strategies[i].strategy.portfolio_weight

\* cash + sum of shares * as-of price.
Worth(date) ==
    portfolio.cash
    + portfolio.stock_count["A"] * AsOfPrice(data["A"], date)
    + portfolio.stock_count["B"] * AsOfPrice(data["B"], date)

\* C19: for a ticker of non-zero weight whose position value exceeds
\* weight * total portfolio value, rebalance proposes the sale of
\* floor((position value - target value) / price) shares at the as-of
\* price: one sell order of that many shares, none when that is 0.
C19_RebalanceSell ==
    Rebalanced =>
        \A t \in Tickers :
            LET w == WeightOf(applied.strategies, t)
                price == AsOfPrice(data[t], applied.date)
                excess == portfolio.stock_count[t] * price * w[2]
                              - w[1] * Worth(applied.date)
                sells == OrdersOf("sell", t)
            IN  w[1] # 0 /\ excess > 0 =>
                    \E q \in 0..portfolio.stock_count[t] :
                        /\ q * price * w[2] <= excess
                        /\ excess < (q + 1) * price * w[2]
                        /\ Cardinality(sells) = IF q > 0 THEN 1 ELSE 0
                        /\ \A i \in sells :
                               /\ applied.actions[i].quantity = q
                               /\ applied.actions[i].price = price

\* A = 80 and B = 20 shares at 100, cash 0, weights 7/10 and 3/10: the
\* first order is the sale of 10 A.
C19_Witness ==
    /\ Rebalanced
    /\ portfolio.cash = 0
    /\ portfolio.stock_count = [t \in Tickers |-> IF t = "A" THEN 80 ELSE 20]
    /\ WeightOf(applied.strategies, "A") = <<7, 10>>
    /\ WeightOf(applied.strategies, "B") = <<3, 10>>
    /\ applied.actions # <<>>
    /\ applied.actions[1] = Action("A", "sell", 10, 100)

\* The scenario of C20: a portfolio worth 10000, held as 80 A and 20 B at
\* price 100, with the target weights 7/10 for A and 3/10 for B.
Scenario ==
    /\ Rebalanced
    /\ portfolio.cash = 0
    /\ portfolio.stock_count = [t \in Tickers |-> IF t = "A" THEN 80 ELSE 20]
    /\ \A t \in Tickers : AsOfPrice(data[t], applied.date) = 100
    /\ WeightOf(applied.strategies, "A") = <<7, 10>>
    /\ WeightOf(applied.strategies, "B") = <<3, 10>>

\* C20 as stated: in the scenario rebalance proposes both a sell of 10 A and
\* a buy of 10 B.
C20_RebalanceScenario ==
    Scenario =>
        /\ \E i \in OrdersOf("sell", "A") : applied.actions[i].quantity = 10
        /\ \E i \in OrdersOf("buy", "B") : applied.actions[i].quantity = 10

\* C20, amended: in the scenario rebalance proposes one order, the sell of
\* 10 A; with no cash the buy of B is cut to 0 shares and not proposed.
C20_RebalanceScenarioSellOnly ==
    Scenario => applied.actions = <<Action("A", "sell", 10, 100)>>

C20_Witness ==
    /\ Scenario
    /\ OrdersOf("sell", "A") = {1}
    /\ OrdersOf("buy", "B") = {}
    /\ Worth(applied.date) = 10000

\* Some item of the document trades or refers to a ticker without a series
\* among the stocks.
LacksData(strategies) ==
    \E i \in DOMAIN strategies :
        ~({strategies[i].ticker, strategies[i].strategy.buy.ticker,
           strategies[i].strategy.sell.ticker} \subseteq DOMAIN data)

\* C21: when the traded ticker, the buy rule's reference or the sell rule's
\* reference of an item has no series among the stocks, the evaluation
\* fails, returns no order for any ticker and leaves the portfolio as it was.
C21_MissingReferenceData ==
    applied.call = "apply" /\ LacksData(applied.strategies) =>
        /\ applied.raised # "none"
        /\ applied.actions = <<>>
        /\ portfolio = pre.portfolio

\* The item after one whose buy rule has fired lacks data: KeyError, and the
\* order of the first item is not returned.
C21_Witness ==
    /\ applied.call = "apply"
    /\ LacksData(applied.strategies)
    /\ applied.raised = "KeyError"
    /\ \E k \in DOMAIN applied.steps :
        /\ applied.steps[k].fired
        /\ applied.steps[k].ticker = "A"
    /\ applied.actions = <<>>
    /\ portfolio.stock_count["A"] > 0

\* The values the evaluator knows for a rule.
Known(rule) ==
    /\ rule.by[1] \in {"current", "average"}
    /\ rule.criteria[1] \in {"point", "profit-rate", "percent-change", "value"}
    /\ rule.quantity[1] \in {"count", "percent", "value", "split"}

\* C22: a document with an unknown indicator mode, threshold kind or
\* quantity mode is rejected when it is validated: no evaluation is ever
\* called on such a document.
C22_SchemaValidation ==
    applied.call = "apply" =>
        \A i \in DOMAIN applied.strategies :
            /\ Known(applied.strategies[i].strategy.buy)
            /\ Known(applied.strategies[i].strategy.sell)

Processed == {run_dates[i] : i \in 1..(di - 1)}

IsPrefix(s, t) == Len(s) <= Len(t) /\ SubSeq(t, 1, Len(s)) = s

\* C24: when execute_action raises at the date t = run_dates[di], the trades
\* logged before the call are still the head of the trade log, the
\* valuations and the daily snapshots of the dates before t are all there,
\* and there is no valuation and no snapshot for t or a later date.
C24_PartialResults ==
    pc = "raised" =>
        /\ IsPrefix(pre.trades, trades)
        /\ \A i \in 1..Len(pre.trades) : trades[i].date < run_dates[di]
        /\ DOMAIN value_over_time = Processed
        /\ Len(daily_snapshots) = di - 1
        /\ \A i \in 1..(di - 1) : daily_snapshots[i].date = run_dates[i]
        /\ \A d \in Processed : d < run_dates[di]

\* The second date of a run raises after trades were logged on the first.
C24_Witness ==
    /\ pc = "raised"
    /\ di = 2
    /\ pre.trades # <<>>
    /\ DOMAIN value_over_time = {run_dates[1]}

(***************************************************************************)
(* C25  The date axis.                                                     *)
(***************************************************************************)
\* The dates on which every tracked ticker has a row of downloaded history.
InEverySeries == {d \in Days : \A t \in Tickers : RawInIndex(t, d)}

Axis(end_date) ==
    Sorted({d \in InEverySeries : end_date = None \/ d <= end_date})

\* C25: the dates of a run are the dates present in every ticker's series, up
\* to end_date when one is given, in strictly increasing order; the dates
\* processed so far are the first di - 1 of them, each snapshotted once and in
\* that order, value_over_time has exactly one entry for each, and a run that
\* ends without an error has processed them all.
C25_DateAxis ==
    pc # "init" =>
        /\ \E end_date \in {None} \cup Days : run_dates = Axis(end_date)
        /\ \A i, j \in DOMAIN run_dates : i < j => run_dates[i] < run_dates[j]
        /\ di \in 1..(Len(run_dates) + 1)
        /\ DOMAIN value_over_time = Processed
        /\ Len(daily_snapshots) = di - 1
        /\ \A i \in 1..(di - 1) : daily_snapshots[i].date = run_dates[i]
        /\ pc = "done" => di = Len(run_dates) + 1

\* A run cut by end_date has ended: one date of the two common ones.
C25_Witness ==
    /\ pc = "done"
    /\ dates = <<2, 4>>
    /\ run_dates = <<2>>
    /\ DOMAIN value_over_time = {2}
    /\ Len(daily_snapshots) = 1

(***************************************************************************)
(* C28  Valuation is read-only.                                            *)
(***************************************************************************)
\* C28: a step that computes the portfolio value (a query, or the valuation
\* and the snapshot of a run date) leaves every ticker's series and the
\* portfolio as they were.
C28_ValuationReadOnly ==
    [][(value' # value \/ daily_snapshots' # daily_snapshots)
           => (data' = data /\ portfolio' = portfolio)]_vars

(***************************************************************************)
(* Backtest.run with several strategies, called more than once             *)
(***************************************************************************)
MaxRuns == 2

\* Backtest([A, B], [s1, s2], initial_capital)
RunInit ==
    /\ initial_capital \in InitialCapitals
    /\ portfolio = NewPortfolio(initial_capital)
    /\ trades = <<>>
    /\ data = [t \in Tickers |-> DataProcessing(t)]
    /\ dates = GetCommonDates(data)
    /\ value_over_time = [d \in {} |-> NaN]
    /\ daily_snapshots = <<>>
    /\ pc = "init"
    /\ run_dates = <<>>
    /\ di = 1
    /\ value = NoValue
    /\ NoCall(portfolio, trades)
    /\ applied = NoApply
    /\ managers = <<"s1", "s2">>
    /\ si = 1
    /\ runs = 0
    /\ shelf = [s \in Range(managers) |-> NoResults]
    /\ monthly_df = NotAsked

\* The batches the strategies of these runs return.
Returns ==
    { <<>>, <<Action("A", "buy", 22, 1)>>, <<Action("A", "sell", 5, 2)>> }

\* trades[s] and value_over_time[s] of every strategy, the running one's
\* entries written back.
Shelved ==
    [shelf EXCEPT ![managers[si]] =
        [trades |-> trades, value_over_time |-> value_over_time]]

\* Mutant of NextStrategy: the next strategy inherits the portfolio.
NextStrategyKeepsPortfolio ==
    /\ pc = "next"
    /\ si' = si + 1
    /\ shelf' = Shelved
    /\ trades' = Shelved[managers[si + 1]].trades
    /\ value_over_time' = Shelved[managers[si + 1]].value_over_time
    /\ portfolio' = portfolio
    /\ di' = 1
    /\ pc' = "apply"
    /\ actions' = <<>>
    /\ outcome' = "none"
    /\ ratio' = One
    /\ pre' = Snap(portfolio, Shelved[managers[si + 1]].trades)
    /\ mid' = portfolio
    /\ filled' = <<>>
    /\ path' = <<>>
    /\ UNCHANGED <<monthly_df, managers, runs, initial_capital, data, dates,
                   daily_snapshots, run_dates, value, applied>>

\* "for strategy in self.strategies": the dates of one strategy are done and
\* the loop takes the next one, on a new Portfolio.
NextStrategy ==
    /\ pc = "next"
    /\ si' = si + 1
    /\ shelf' = Shelved
    /\ trades' = Shelved[managers[si + 1]].trades
    /\ value_over_time' = Shelved[managers[si + 1]].value_over_time
    /\ portfolio' = NewPortfolio(initial_capital)
    /\ di' = 1
    /\ pc' = "apply"
    /\ actions' = <<>>
    /\ outcome' = "none"
    /\ ratio' = One
    /\ pre' = Snap(NewPortfolio(initial_capital),
                   Shelved[managers[si + 1]].trades)
    /\ mid' = NewPortfolio(initial_capital)
    /\ filled' = <<>>
    /\ path' = <<>>
    /\ UNCHANGED <<monthly_df, managers, runs, initial_capital, data, dates,
                   daily_snapshots, run_dates, value, applied>>

\* run(end_date) is called on a Backtest that has run before: the call that
\* ended, or the one a ValueError left, is over.
RunAgain(end_date) ==
    /\ pc \in {"done", "raised"}
    /\ runs < MaxRuns
    /\ runs' = runs + 1
    /\ run_dates' = RunDates(dates, end_date)
    /\ si' = 1
    /\ shelf' = Shelved
    /\ trades' = Shelved[managers[1]].trades
    /\ value_over_time' = Shelved[managers[1]].value_over_time
    /\ portfolio' = NewPortfolio(initial_capital)
    /\ di' = 1
    /\ pc' = IF RunDates(dates, end_date) = <<>> THEN "done" ELSE "apply"
    /\ actions' = <<>>
    /\ outcome' = "none"
    /\ ratio' = One
    /\ pre' = Snap(NewPortfolio(initial_capital), Shelved[managers[1]].trades)
    /\ mid' = NewPortfolio(initial_capital)
    /\ filled' = <<>>
    /\ path' = <<>>
    /\ UNCHANGED <<monthly_df, managers, initial_capital, data, dates, daily_snapshots,
                   value, applied>>

(***************************************************************************)
(* Backtest.get_monthly_snapshots                                          *)
(***************************************************************************)
\* The calendar of the history: days 1 and 2 are the last two dates of a
\* month, day 3 is the one date of the next month, and every later day is in
\* a month of its own.
MonthOf(d) == IF d <= 2 THEN 1 ELSE d - 1

\* The columns of pd.DataFrame(self.daily_snapshots) once "date" is the index.
Columns ==
    {<<"Cash">>, <<"Total_Value">>}
        \cup {<<"Stock_Amount", t>> : t \in Tickers}
        \cup {<<"Stock_Value", t>> : t \in Tickers}

\* The cell of the snapshot s in the column c.
Column(s, c) ==
    IF c = <<"Cash">> THEN Num(s.Cash)
    ELSE IF c = <<"Total_Value">> THEN s.Total_Value
    ELSE IF c[1] = "Stock_Amount" THEN Num(s.Stock_Amount[c[2]])
    ELSE s.Stock_Value[c[2]]

\* resample sorts the frame by its index, keeping the order of equal dates:
\* row i comes before row j.
Earlier(snaps, i, j) ==
    snaps[i].date < snaps[j].date \/ (snaps[i].date = snaps[j].date /\ i < j)

\* The row of S that comes last.
LastOf(snaps, S) == CHOOSE i \in S : \A j \in S \ {i} : Earlier(snaps, j, i)

\* .last() of one bin and one column: the last cell that is not NaN, NaN
\* when the bin has none.
LastValid(snaps, S, c) ==
    LET valid == {i \in S : ~Column(snaps[i], c).nan}
    IN  IF valid = {} THEN NaN ELSE Column(snaps[LastOf(snaps, valid)], c)

\* One row of the monthly frame.
MonthRow(snaps, m) ==
    [month |-> m,
     cells |-> [c \in Columns |->
                   LastValid(snaps,
                             {i \in DOMAIN snaps : MonthOf(snaps[i].date) = m},
                             c)]]

\* df.resample("ME").last(): one bin for every month from the month of the
\* first date to the month of the last date.
Resample(snaps) ==
    LET months == {MonthOf(snaps[i].date) : i \in DOMAIN snaps}
    IN  [k \in 1..(Max(months) - Min(months) + 1) |->
            MonthRow(snaps, Min(months) + k - 1)]

\* "if not self.daily_snapshots: return pd.DataFrame()"
MonthlySnapshots(snaps) == IF snaps = <<>> THEN <<>> ELSE Resample(snaps)

\* A caller asks for the monthly view, once, before a run or after one.
GetMonthlySnapshots ==
    /\ pc \in {"init", "done", "raised"}
    /\ monthly_df = NotAsked
    /\ monthly_df' = [asked |-> TRUE, daily_snapshots |-> daily_snapshots,
                      rows |-> MonthlySnapshots(daily_snapshots)]
    /\ UNCHANGED <<loop, initial_capital, portfolio, trades, data, dates,
                   value_over_time, daily_snapshots, pc, run_dates, di, value,
                   call, applied>>

RunNext ==
    \/ \E end_date \in {None} \cup Days : RunStart(end_date)
    \/ \E end_date \in {None} \cup Days : RunAgain(end_date)
    \/ \E batch \in Returns : Execute(batch)
    \/ Record
    \/ NextStrategy
    \/ GetMonthlySnapshots

RunSpec == RunInit /\ [][RunNext]_vars

(***************************************************************************)
(* C23  Strategy isolation on a fatal error.                               *)
(***************************************************************************)
TradesOf(s) == IF s = managers[si] THEN trades ELSE shelf[s].trades

ValuesOf(s) ==
    IF s = managers[si] THEN value_over_time ELSE shelf[s].value_over_time

\* C23: when a strategy of the first run() of a Backtest raises, every other
\* strategy has a valuation for every date of the run.
C23_StrategyIsolation ==
    (pc = "raised" /\ runs = 1) =>
        \A s \in Range(managers) \ {managers[si]} :
            DOMAIN ValuesOf(s) = Range(run_dates)

(***************************************************************************)
(* C26  A fresh portfolio for every strategy run.                          *)
(***************************************************************************)
\* C26: when the first date of a strategy is about to be evaluated, the
\* portfolio holds the initial capital in cash, no share and a cost basis of
\* zero for every ticker, whichever strategy or run() came before.
C26_FreshPortfolio ==
    (pc = "apply" /\ di = 1) =>
        /\ portfolio.cash = initial_capital
        /\ \A t \in Tickers :
               portfolio.stock_count[t] = 0 /\ portfolio.buy_value[t] = Zero

\* The second strategy of a second run() starts; the first one has traded.
C26_Witness ==
    /\ pc = "apply"
    /\ di = 1
    /\ si = 2
    /\ runs = 2
    /\ shelf[managers[1]].trades # <<>>
    /\ shelf[managers[2]].trades # <<>>

(***************************************************************************)
(* C27  Monthly snapshots.                                                 *)
(***************************************************************************)
\* The months in which the list snaps has a daily snapshot.
MonthsOf(snaps) == {MonthOf(snaps[i].date) : i \in DOMAIN snaps}

\* The daily snapshot of the last recorded date of the month m.
LastOfMonth(snaps, m) ==
    snaps[LastOf(snaps, {i \in DOMAIN snaps : MonthOf(snaps[i].date) = m})]

\* C27: the monthly frame has one row for each calendar month that has a
\* daily snapshot and no other row; a row carries the Cash, the Total_Value
\* and the per-ticker amounts and values of the month's last daily snapshot;
\* snapshots of two months give at least two rows.
C27_MonthlySnapshots ==
    monthly_df.asked =>
        LET snaps == monthly_df.daily_snapshots
            rows == monthly_df.rows
        IN  /\ Len(rows) = Cardinality(MonthsOf(snaps))
            /\ \A k \in DOMAIN rows :
                   /\ rows[k].month \in MonthsOf(snaps)
                   /\ \A c \in Columns :
                          rows[k].cells[c] =
                              Column(LastOfMonth(snaps, rows[k].month), c)
            /\ Cardinality(MonthsOf(snaps)) >= 2 => Len(rows) >= 2

(***************************************************************************)
(* Doubles, exactly.  A natural number is its sequence of bits, lowest     *)
(* first and without leading zeros; a double that is not negative is       *)
(* [m, e], the number m * 2^e with m of at most 53 bits, odd or zero.      *)
(***************************************************************************)
MantissaLen == MantissaBits + 1

RECURSIVE Bits(_)
Bits(n) == IF n = 0 THEN <<>> ELSE <<n % 2>> \o Bits(n \div 2)

\* b without its leading zeros.
Trim(b) ==
    LET ones == {i \in 1..Len(b) : b[i] = 1}
    IN  IF ones = {} THEN <<>>
        ELSE SubSeq(b, 1, CHOOSE i \in ones : \A j \in ones : j <= i)

Bit(b, i) == IF i \in 1..Len(b) THEN b[i] ELSE 0

ShiftLeft(b, k) ==
    IF b = <<>> THEN <<>>
    ELSE [i \in 1..(Len(b) + k) |-> IF i <= k THEN 0 ELSE b[i - k]]

\* The carry into the bit i of a + b: a lower position where both have a
\* one, and one of the two has a one at every position between.
Carry(a, b, i) ==
    \E j \in 1..(i - 1) :
        /\ Bit(a, j) + Bit(b, j) = 2
        /\ \A k \in (j + 1)..(i - 1) : Bit(a, k) + Bit(b, k) = 1

BitsAdd(a, b) ==
    Trim([i \in 1..((IF Len(a) >= Len(b) THEN Len(a) ELSE Len(b)) + 1) |->
            (Bit(a, i) + Bit(b, i) + (IF Carry(a, b, i) THEN 1 ELSE 0)) % 2])

\* The borrow from the bit i of a - b, for a >= b.
Borrow(a, b, i) ==
    \E j \in 1..(i - 1) :
        /\ Bit(a, j) < Bit(b, j)
        /\ \A k \in (j + 1)..(i - 1) : Bit(a, k) <= Bit(b, k)

BitsSub(a, b) ==
    Trim([i \in 1..Len(a) |->
            (Bit(a, i) - Bit(b, i) - (IF Borrow(a, b, i) THEN 1 ELSE 0) + 2) % 2])

BitsLess(a, b) ==
    \/ Len(a) < Len(b)
    \/ /\ Len(a) = Len(b)
       /\ \E i \in 1..Len(a) :
              a[i] < b[i] /\ \A j \in (i + 1)..Len(a) : a[j] = b[j]

\* a * n for a small n.
RECURSIVE BitsTimes(_, _)
BitsTimes(a, n) ==
    IF n = 0 THEN <<>>
    ELSE BitsAdd(IF n % 2 = 1 THEN a ELSE <<>>,
                 ShiftLeft(BitsTimes(a, n \div 2), 1))

\* One step of the long division of a by b: the bit i of a joins the
\* remainder of the bits above it.
BitsDivStep(b, bit, above) ==
    IF BitsLess(Trim(<<bit>> \o above.r), b)
    THEN [q |-> <<0>> \o above.q, r |-> Trim(<<bit>> \o above.r)]
    ELSE [q |-> <<1>> \o above.q, r |-> BitsSub(Trim(<<bit>> \o above.r), b)]

\* The long division of a by b over the bits lo..hi of a, highest first, from
\* the quotient and the remainder of the bits above hi.
RECURSIVE BitsDivOver(_, _, _, _, _)
BitsDivOver(a, b, lo, hi, above) ==
    IF lo = hi THEN BitsDivStep(b, a[lo], above)
    ELSE CHOOSE d \in
             { BitsDivOver(a, b, lo, (lo + hi) \div 2, upper) :
                 upper \in {BitsDivOver(a, b, (lo + hi) \div 2 + 1, hi,
                                        above)} } : TRUE

\* a \div b and a % b
BitsDiv(a, b) ==
    IF Len(a) < Len(b) THEN [q |-> <<>>, r |-> a]
    ELSE LET top == Len(a) - Len(b) + 1
             d == BitsDivOver(a, b, 1, top,
                              [q |-> <<>>,
                               r |-> Trim(SubSeq(a, top + 1, Len(a)))])
         IN  [q |-> Trim(d.q), r |-> d.r]

RECURSIVE BitsValue(_)
BitsValue(b) == IF b = <<>> THEN 0 ELSE b[1] + 2 * BitsValue(Tail(b))

\* The number m * 2^e with the factors of two moved from m into e.
Canon(m, e) ==
    LET ones == {i \in 1..Len(m) : m[i] = 1}
        low == CHOOSE i \in ones : \A j \in ones : i <= j
    IN  IF ones = {} THEN [m |-> <<>>, e |-> 0]
        ELSE [m |-> Trim(SubSeq(m, low, Len(m))), e |-> e + low - 1]

\* Round to nearest, ties to even: the double nearest to m * 2^e.
RoundDouble(m, e) ==
    IF Len(m) <= MantissaLen THEN Canon(m, e)
    ELSE LET k == Len(m) - MantissaLen
             kept == SubSeq(m, k + 1, Len(m))
             up == /\ m[k] = 1
                   /\ (kept[1] = 1 \/ \E i \in 1..(k - 1) : m[i] = 1)
         IN  Canon(IF up THEN BitsAdd(kept, <<1>>) ELSE kept, e + k)

DoubleOf(n) == Canon(Bits(n), 0)

\* The mantissas of x and y at their lower exponent.
Aligned(x, y) ==
    LET e == IF x.e <= y.e THEN x.e ELSE y.e
    IN  [x |-> ShiftLeft(x.m, x.e - e), y |-> ShiftLeft(y.m, y.e - e), e |-> e]

DoubleLess(x, y) == BitsLess(Aligned(x, y).x, Aligned(x, y).y)

DoubleGreaterEq(x, y) == ~DoubleLess(x, y)

\* x + y
DoubleAdd(x, y) ==
    LET al == Aligned(x, y) IN RoundDouble(BitsAdd(al.x, al.y), al.e)

\* x - y for x >= y
DoubleSub(x, y) ==
    LET al == Aligned(x, y) IN RoundDouble(BitsSub(al.x, al.y), al.e)

\* n * x for an int n >= 0
DoubleTimes(n, x) == RoundDouble(BitsTimes(x.m, n), x.e)

\* x / y for y > 0: the quotient to 55 bits or more, a last bit standing for
\* the remainder, rounded.
DoubleDiv(x, y) ==
    LET s == MantissaLen + 2 + (IF Len(y.m) > Len(x.m)
                                THEN Len(y.m) - Len(x.m) ELSE 0)
        d == BitsDiv(ShiftLeft(x.m, s), y.m)
    IN  IF x.m = <<>> THEN Canon(<<>>, 0)
        ELSE RoundDouble(<<IF d.r = <<>> THEN 0 ELSE 1>> \o d.q,
                         x.e - y.e - s - 1)

\* math.floor(x) for x >= 0
DoubleFloor(x) ==
    IF x.e >= 0 THEN BitsValue(ShiftLeft(x.m, x.e))
    ELSE IF -x.e >= Len(x.m) THEN 0
    ELSE BitsValue(SubSeq(x.m, 1 - x.e, Len(x.m)))

\* The double a decimal literal of two places denotes: n / 100.
Cents(n) == DoubleDiv(DoubleOf(n), DoubleOf(100))
(***************************************************************************)
(* Backtest.execute_action and Portfolio.update on cash and prices that    *)
(* are not whole numbers, computed in doubles                              *)
(***************************************************************************)
DoubleZero == DoubleOf(0)
DoubleOne == DoubleOf(1)

NewPortfolioDouble(cash) ==
    [cash |-> cash,
     stock_count |-> [t \in Tickers |-> 0],
     buy_value |-> [t \in Tickers |-> DoubleZero]]

\* Portfolio.update(ticker, amount, price); a buy is only made with
\* cash >= amount * price.
PortfolioUpdateDouble(p, ticker, amount, price) ==
    LET count == p.stock_count[ticker]
    IN  IF amount > 0 THEN
            LET current_value == DoubleTimes(count, p.buy_value[ticker])
                cost == DoubleTimes(amount, price)
                updated_value == DoubleAdd(current_value, cost)
            IN  [cash |-> DoubleSub(p.cash, cost),
                 stock_count |->
                     [p.stock_count EXCEPT ![ticker] = count + amount],
                 buy_value |->
                     [p.buy_value EXCEPT
                         ![ticker] = DoubleDiv(updated_value,
                                               DoubleOf(count + amount))]]
        ELSE IF amount < 0 THEN
            LET rev == DoubleTimes(-amount, price)
            IN  [cash |-> DoubleAdd(p.cash, rev),
                 stock_count |->
                     [p.stock_count EXCEPT ![ticker] = count + amount],
                 buy_value |->
                     [p.buy_value EXCEPT
                         ![ticker] = IF count + amount <= 0 THEN DoubleZero
                                     ELSE p.buy_value[ticker]]]
        ELSE p

\* "for action in sells"
RECURSIVE SellLoopDouble(_, _, _)
SellLoopDouble(acc, date, ss) ==
    IF ss = <<>> THEN acc
    ELSE IF CanSell(acc.portfolio, Head(ss)) THEN
        SellLoopDouble(
            [portfolio |-> PortfolioUpdateDouble(acc.portfolio, Head(ss).ticker,
                                                 -Head(ss).quantity,
                                                 Head(ss).price),
             trades |-> Append(acc.trades,
                               Trade(date, Head(ss), Head(ss).quantity)),
             raised |-> FALSE,
             path |-> Append(acc.path,
                             PortfolioUpdateDouble(acc.portfolio,
                                                   Head(ss).ticker,
                                                   -Head(ss).quantity,
                                                   Head(ss).price))],
            date, Tail(ss))
    ELSE [acc EXCEPT !.raised = TRUE]

\* sum(action.price * action.quantity for action in buys) over the first k
\* buys: sum() adds from the left, starting at 0.
RECURSIVE SumBuyCost(_, _)
SumBuyCost(bs, k) ==
    IF k = 0 THEN DoubleZero
    ELSE DoubleAdd(SumBuyCost(bs, k - 1),
                   DoubleTimes(bs[k].quantity, bs[k].price))

TotalBuyCostDouble(bs) == SumBuyCost(bs, Len(bs))

\* "elif total_buy_cost > available_cash and available_cash <= 0: return"
NoCashReturnDouble(total_buy_cost, available_cash) ==
    /\ DoubleLess(available_cash, total_buy_cost)
    /\ ~DoubleLess(DoubleZero, available_cash)

\* ratio = available_cash / total_buy_cost, or 1.0
RatioDouble(total_buy_cost, available_cash) ==
    IF DoubleLess(available_cash, total_buy_cost)
           /\ DoubleLess(DoubleZero, available_cash)
    THEN DoubleDiv(available_cash, total_buy_cost)
    ELSE DoubleOne

\* quantity_to_buy = math.floor(action.quantity * ratio)
QuantityToBuyDouble(quantity, r) == DoubleFloor(DoubleTimes(quantity, r))

\* "if self.portfolio.cash >= cost"
CashCheckDouble(p, cost) == DoubleGreaterEq(p.cash, cost)

\* The quantity one buy executes: 0 when it is scaled to nothing or skipped.
ExecutedDouble(p, a, r) ==
    LET quantity_to_buy == QuantityToBuyDouble(a.quantity, r)
    IN  IF quantity_to_buy > 0
               /\ CashCheckDouble(p, DoubleTimes(quantity_to_buy, a.price))
        THEN quantity_to_buy
        ELSE 0

\* One pass of "for action in buys" over the order a, which executes q.
BuyOneDouble(acc, date, a, q) ==
    IF q = 0 THEN [acc EXCEPT !.filled = Append(acc.filled, 0)]
    ELSE [portfolio |->
              PortfolioUpdateDouble(acc.portfolio, a.ticker, q, a.price),
          trades |-> Append(acc.trades, Trade(date, a, q)),
          filled |-> Append(acc.filled, q),
          path |-> Append(acc.path,
                          PortfolioUpdateDouble(acc.portfolio, a.ticker, q,
                                                a.price))]

\* "for action in buys"
RECURSIVE BuyLoopDouble(_, _, _, _)
BuyLoopDouble(acc, date, bs, r) ==
    IF bs = <<>> THEN acc
    ELSE BuyLoopDouble(BuyOneDouble(acc, date, Head(bs),
                                    ExecutedDouble(acc.portfolio, Head(bs), r)),
                       date, Tail(bs), r)

\* The part of the call after the sell loop.
AfterSellsDouble(s, date, bs, total_buy_cost, available_cash) ==
    IF s.raised THEN Stopped(s, "raised")
    ELSE IF bs = <<>> THEN Stopped(s, "no_buys")
    ELSE IF NoCashReturnDouble(total_buy_cost, available_cash)
         THEN Stopped(s, "no_cash")
    ELSE Bought(s,
                BuyLoopDouble([portfolio |-> s.portfolio, trades |-> s.trades,
                               filled |-> <<>>, path |-> s.path],
                              date, bs,
                              RatioDouble(total_buy_cost, available_cash)),
                RatioDouble(total_buy_cost, available_cash))

\* The whole call.
ExecuteActionDouble(p, tr, date, batch) ==
    LET s == SellLoopDouble([portfolio |-> p, trades |-> tr,
                             raised |-> FALSE, path |-> <<>>],
                            date, Sells(batch))
    IN  AfterSellsDouble(s, date, Buys(batch), TotalBuyCostDouble(Buys(batch)),
                         s.portfolio.cash)

\* The orders of these calls: prices in dollars and cents.
DecimalPool ==
    { Action("A", "buy", 1, Cents(40)), Action("B", "buy", 1, Cents(10)),
      Action("B", "buy", 3, Cents(20)), Action("A", "sell", 1, Cents(50)),
      Action("A", "sell", 3, Cents(50)) }

DecimalBatches ==
    {<<>>} \cup {<<a>> : a \in DecimalPool}
           \cup {<<a, b>> : a \in DecimalPool, b \in DecimalPool}

\* The Backtest at a date of its run: at the first date with the capital in
\* cash, or at the second after 2 shares of A were bought at 0.40 on the
\* first.
Opening(capital) ==
    [initial_capital |-> capital, portfolio |-> NewPortfolioDouble(capital),
     trades |-> <<>>, di |-> 1]

Holding(capital) ==
    LET r == ExecuteActionDouble(NewPortfolioDouble(capital), <<>>, 2,
                                 <<Action("A", "buy", 2, Cents(40))>>)
    IN  [initial_capital |-> capital, portfolio |-> r.portfolio,
         trades |-> r.trades, di |-> 2]

DecimalCases ==
    {Opening(Cents(50)), Opening(Cents(70)), Opening(DoubleZero),
     Holding(Cents(100))}

DecimalInit ==
    \E c \in DecimalCases :
        /\ initial_capital = c.initial_capital
        /\ portfolio = c.portfolio
        /\ trades = c.trades
        /\ data = [t \in Tickers |-> DataProcessing(t)]
        /\ dates = GetCommonDates(data)
        /\ value_over_time = [d \in {} |-> NaN]
        /\ daily_snapshots = <<>>
        /\ pc = "apply"
        /\ run_dates = dates
        /\ di = c.di
        /\ value = NoValue
        /\ NoCall(portfolio, trades)
        /\ applied = NoApply
        /\ managers = <<"s1">>
        /\ si = 1
        /\ runs = 1
        /\ shelf = [s \in Range(managers) |-> NoResults]
        /\ monthly_df = NotAsked

\* self.execute_action(actions, date, strategy) with a batch priced in
\* dollars and cents.
ExecuteDecimal ==
    /\ pc = "apply"
    /\ \E batch \in DecimalBatches :
        /\ \E r \in {ExecuteActionDouble(portfolio, trades, run_dates[di],
                                         batch)} :
               /\ portfolio' = r.portfolio
               /\ trades' = r.trades
               /\ outcome' = r.outcome
               /\ ratio' = r.ratio
               /\ mid' = r.mid
               /\ filled' = r.filled
               /\ path' = r.path
               /\ pc' = IF r.outcome = "raised" THEN "raised" ELSE "record"
        /\ actions' = batch
    /\ pre' = Snap(portfolio, trades)
    /\ UNCHANGED <<loop, monthly_df, initial_capital, data, dates,
                   value_over_time, daily_snapshots, run_dates, di, value,
                   applied>>

DecimalNext == ExecuteDecimal

DecimalSpec == DecimalInit /\ [][DecimalNext]_vars

(***************************************************************************)
(* C29  Scaling is monotone.                                               *)
(***************************************************************************)
\* C29: a buy never executes more than it asked for, and when the total buy
\* cost is at most the cash the sells of the batch left, every buy executes
\* the quantity it asked for.
C29_ScalingMonotone ==
    outcome = "bought" =>
        /\ \A k \in DOMAIN filled : filled[k] <= Buys(actions)[k].quantity
        /\ DoubleGreaterEq(mid.cash, TotalBuyCostDouble(Buys(actions)))
               => \A k \in DOMAIN filled :
                      filled[k] = Buys(actions)[k].quantity

\* The orders of a batch that ask for at least one share, in batch order.
Positive(batch) == SelectSeq(batch, LAMBDA a : a.quantity > 0)

\* The cost of the buys of a batch that ask for at least one share.
RECURSIVE PositiveBuyCost(_)
PositiveBuyCost(batch) ==
    IF batch = <<>> THEN 0
    ELSE (IF Head(batch).type = "buy" /\ Head(batch).quantity > 0
          THEN Head(batch).price * Head(batch).quantity ELSE 0)
         + PositiveBuyCost(Tail(batch))

(***************************************************************************)
(* C31  The Execution Engine ignores every order with quantity <= 0: the   *)
(* call ends exactly as it does on the batch without these orders (same    *)
(* cash, share counts, cost bases, trade log, same error or none), no      *)
(* trade record has a quantity <= 0, and the buys are admitted and scaled  *)
(* against the cost of the buys with quantity > 0 only.                    *)
(***************************************************************************)
C31_IgnoresEmptyOrders ==
    outcome # "none" =>
        LET r == ExecuteAction(pre.portfolio, pre.trades, run_dates[di],
                               Positive(actions))
            cost == PositiveBuyCost(actions)
        IN  /\ portfolio = r.portfolio
            /\ trades = r.trades
            /\ outcome = r.outcome
            /\ filled = r.filled
            /\ \A k \in DOMAIN NewTrades : NewTrades[k].quantity > 0
            /\ outcome = "bought" =>
                   ratio = IF cost > mid.cash THEN <<mid.cash, cost>> ELSE One
            /\ outcome = "no_cash" => cost > mid.cash
            /\ Positive(actions) = <<>> =>
                   /\ portfolio = pre.portfolio
                   /\ trades = pre.trades
                   /\ outcome = "no_buys"

\* A batch with a buy of quantity <= 0 was scaled down, and would not have
\* been had that order counted toward the total buy cost.
C31_Witness ==
    /\ outcome = "bought"
    /\ ratio # One
    /\ \E k \in DOMAIN actions :
           actions[k].type = "buy" /\ actions[k].quantity <= 0
    /\ \E k \in DOMAIN filled : filled[k] > 0
    /\ LET all == SelectSeq(actions, LAMBDA a : a.type = "buy")
       IN  TotalBuyCost(all) <= mid.cash

\* apply was called on a date when the rebalance is due, and returned.
AppliedRebalancing ==
    applied.call = "apply_rebalancing" /\ applied.raised = "none"

\* The rules of the last call that fired, in evaluation order.
FiredSteps == SelectSeq(applied.steps, LAMBDA s : s.fired)

\* The returned orders after those of the per-ticker rules.
RebalancePart ==
    SubSeq(applied.actions, Len(FiredSteps) + 1, Len(applied.actions))

\* The position of a ticker's item in the document of the last call.
ItemOf(t) ==
    CHOOSE i \in DOMAIN applied.strategies : applied.strategies[i].ticker = t

(***************************************************************************)
(* C32  Rebalance ordering: the batch the evaluator returns begins with    *)
(* the orders of the per-ticker rules, one per rule that fired, in         *)
(* evaluation order; the rebalance orders (one per weighted ticker that    *)
(* is off its target by at least a share) follow them all, and among the   *)
(* rebalance orders every sell precedes every buy.  The same holds for     *)
(* the list rebalance returns by itself.                                   *)
(***************************************************************************)
C32_RebalanceOrdering ==
    /\ AppliedRebalancing =>
           LET proposed ==
                   RebalanceOrders(applied.strategies, portfolio, data,
                                   applied.date, Worth(applied.date))
           IN  /\ Len(applied.actions) = Len(FiredSteps) + Len(proposed)
               /\ \A k \in DOMAIN FiredSteps :
                      /\ applied.actions[k].ticker = FiredSteps[k].ticker
                      /\ applied.actions[k].type = FiredSteps[k].type
               /\ \A k \in DOMAIN proposed :
                      \E j \in DOMAIN RebalancePart :
                          RebalancePart[j] = proposed[k]
               /\ \A i, j \in DOMAIN RebalancePart :
                      RebalancePart[i].type = "sell"
                          /\ RebalancePart[j].type = "buy" => i < j
    /\ Rebalanced =>
           \A i, j \in DOMAIN applied.actions :
               applied.actions[i].type = "sell"
                   /\ applied.actions[j].type = "buy" => i < j

\* After the orders of rules that fired, among them a buy, the call returned
\* the rebalance sale of one ticker and then the rebalance purchase of a
\* ticker that stands before it in the document.
C32_Witness ==
    /\ AppliedRebalancing
    /\ \E k \in DOMAIN FiredSteps : applied.actions[k].type = "buy"
    /\ Len(RebalancePart) = 2
    /\ RebalancePart[1].type = "sell"
    /\ RebalancePart[2].type = "buy"
    /\ RebalancePart[1].quantity > 0 /\ RebalancePart[2].quantity > 0
    /\ ItemOf(RebalancePart[2].ticker) < ItemOf(RebalancePart[1].ticker)

(***************************************************************************)
(* C33  Evaluator output shape and order: apply returns for each ticker of *)
(* the document at most one buy order and at most one sell order, one for  *)
(* each of its rules that fired; both are sized against the portfolio the  *)
(* call was given (the buy within its cash, the sell within its shares),   *)
(* and the orders of different tickers appear in the insertion order of    *)
(* the document.                                                           *)
(***************************************************************************)
C33_OutputShape ==
    Applied =>
        /\ Len(applied.actions) = Len(FiredSteps)
        /\ \A t \in Tickers :
               /\ Cardinality(OrdersOf("buy", t)) <= 1
               /\ Cardinality(OrdersOf("sell", t)) <= 1
               /\ \A i \in OrdersOf("buy", t) :
                      applied.actions[i].quantity * applied.actions[i].price
                          <= Max2(portfolio.cash, 0)
               /\ \A i \in OrdersOf("sell", t) :
                      applied.actions[i].quantity <= portfolio.stock_count[t]
        /\ \A i, j \in DOMAIN applied.actions :
               i < j => ItemOf(applied.actions[i].ticker)
                            <= ItemOf(applied.actions[j].ticker)

\* A document that lists B before A returned a buy and a sell for B, then
\* orders for A; the sale of B takes every share held while the purchase of B
\* is sized on the cash the portfolio has.
C33_Witness ==
    /\ Applied
    /\ Len(applied.strategies) = 2
    /\ applied.strategies[1].ticker = "B"
    /\ Len(applied.actions) >= 3
    /\ applied.actions[1].ticker = "B" /\ applied.actions[1].type = "buy"
    /\ applied.actions[2].ticker = "B" /\ applied.actions[2].type = "sell"
    /\ applied.actions[3].ticker = "A"
    /\ applied.actions[1].quantity > 0
    /\ applied.actions[2].quantity = portfolio.stock_count["B"]
    /\ portfolio.stock_count["B"] > 0

(***************************************************************************)
(* C34  Only the Execution Engine mutates the portfolio: a step of the     *)
(* driver changes cash, share counts or cost bases only when it is the     *)
(* execute_action call of a date (or run()'s reset to the initial          *)
(* capital); the valuation and the snapshot that follow a call, and a      *)
(* valuation asked after the run, leave the portfolio as it is, so the     *)
(* call for a date starts from the portfolio the call for the previous     *)
(* date left, which is the one its snapshot shows.                         *)
(***************************************************************************)
C34_OnlyEngineMutates ==
    [][/\ portfolio' # portfolio => pc \in {"init", "apply"}
       /\ pc = "init" => portfolio' = NewPortfolio(initial_capital)
       /\ pc = "record" =>
              /\ portfolio' = portfolio
              /\ daily_snapshots'[Len(daily_snapshots')].Cash = portfolio.cash
              /\ daily_snapshots'[Len(daily_snapshots')].Stock_Amount
                     = portfolio.stock_count
       /\ pc = "apply" =>
              /\ pre' = Snap(portfolio, trades)
              /\ pre.portfolio = portfolio
              /\ mid = portfolio
              /\ di > 1 =>
                     /\ daily_snapshots[Len(daily_snapshots)].date
                            = run_dates[di - 1]
                     /\ daily_snapshots[Len(daily_snapshots)].Cash
                            = portfolio.cash
                     /\ daily_snapshots[Len(daily_snapshots)].Stock_Amount
                            = portfolio.stock_count]_vars

\* The call for the second date started from a portfolio that holds shares
\* at a cost basis of its own, bought on the first date and valued since, at
\* NaN in all.
C34_Witness ==
    /\ pc \in {"record", "raised"}
    /\ di = 2
    /\ \E t \in Tickers :
           /\ pre.portfolio.stock_count[t] > 0
           /\ pre.portfolio.buy_value[t] # Zero
           /\ ~AsofClose(data[t], run_dates[1]).nan
           /\ pre.portfolio.buy_value[t]
                  # <<AsofClose(data[t], run_dates[1]).v, 1>>
    /\ Len(daily_snapshots) = 1
    /\ daily_snapshots[1].Stock_Amount = pre.portfolio.stock_count
    /\ daily_snapshots[1].Total_Value.nan

(***************************************************************************)
(* C35  Results belong to one strategy run: when run() has returned, the   *)
(* daily snapshots are those of the latest run of one strategy, one per    *)
(* processed date in date order, and the trade log of every strategy       *)
(* holds the records of its latest run only, so its dates never step       *)
(* back and each is a date of that run.  The code never empties            *)
(* self.trades[strategy] and keeps one list of snapshots for all           *)
(* strategies and all run() calls: this statement is violated.             *)
(***************************************************************************)
C35_ResultsOfOneRun ==
    pc = "done" =>
        /\ Len(daily_snapshots) = Len(run_dates)
        /\ \A i \in DOMAIN daily_snapshots :
               i <= Len(run_dates) => daily_snapshots[i].date = run_dates[i]
        /\ \A s \in Range(managers) :
               /\ \A i \in DOMAIN TradesOf(s) :
                      \E k \in DOMAIN run_dates :
                          TradesOf(s)[i].date = run_dates[k]
               /\ \A i, j \in DOMAIN TradesOf(s) :
                      i < j => TradesOf(s)[i].date <= TradesOf(s)[j].date

\* run() has evaluated a date and handed the batch to execute_action; with
\* the rebalance due, or not.
Ran == applied.call = "run" /\ applied.raised = "none"
RanRebalancing == applied.call = "run_rebalancing" /\ applied.raised = "none"

\* The shares of ticker t that the sells of the evaluated batch ask for.
AskedToSell(t) == SoldOf(Sells(applied.actions), t)

(***************************************************************************)
(* C36 (as stated)  A batch produced by the Rule Evaluator for the current *)
(* portfolio, rebalance orders and two sells of one ticker included,       *)
(* never triggers the oversell error when it is executed on that           *)
(* portfolio.  Violated: a rule's sell and the rebalance sell of the same  *)
(* ticker are each cut to the shares held, not their sum.                  *)
(***************************************************************************)
C36_NeverOversells == Ran \/ RanRebalancing => outcome # "raised"

(***************************************************************************)
(* C36 (amended)  The batch of the per-ticker rules alone, which has at    *)
(* most one sell per ticker, cut to the shares held, never triggers the    *)
(* oversell error on the portfolio it was made for.  A batch with          *)
(* rebalance orders triggers it exactly when the sells of some ticker,     *)
(* each within the shares held, ask together for more than are held:       *)
(* then a rule's sell and the rebalance sell of that ticker are both in    *)
(* the batch.                                                              *)
(***************************************************************************)
C36_RuleBatchNeverOversells ==
    /\ Ran =>
           /\ outcome # "raised"
           /\ \A t \in Tickers : AskedToSell(t) <= pre.portfolio.stock_count[t]
    /\ RanRebalancing =>
           /\ outcome = "raised" <=>
                  \E t \in Tickers :
                      AskedToSell(t) > pre.portfolio.stock_count[t]
           /\ \A i \in OrdersOf("sell", "A") \cup OrdersOf("sell", "B") :
                  applied.actions[i].quantity
                      <= pre.portfolio.stock_count[applied.actions[i].ticker]
           /\ \A t \in Tickers :
                  AskedToSell(t) > pre.portfolio.stock_count[t] =>
                      \E i, j \in OrdersOf("sell", t) :
                          i <= Len(FiredSteps) /\ j > Len(FiredSteps)

\* A rule sold every share held of a ticker and the rebalance of the same
\* evaluation sold some more of it: the second sell raised the oversell error
\* after the first was applied.
C36_Witness ==
    /\ RanRebalancing
    /\ outcome = "raised"
    /\ \E t \in Tickers : \E i, j \in OrdersOf("sell", t) :
           /\ i < j
           /\ applied.actions[i].quantity = pre.portfolio.stock_count[t]
           /\ applied.actions[j].quantity > 0
           /\ portfolio.stock_count[t] = 0

\* The orders of the last batch for ticker t, and the prices they carry.
OrdersFor(t) == SelectSeq(actions, LAMBDA a : a.ticker = t)
PricesFor(t) == {OrdersFor(t)[i].price : i \in DOMAIN OrdersFor(t)}

\* All orders of each ticker in the last batch carry one price.
OnePrice == \A t \in Tickers : Cardinality(PricesFor(t)) <= 1

\* That price; 0 for a ticker the batch has no order for.
PriceFor(t) == IF PricesFor(t) = {} THEN 0 ELSE CHOOSE x \in PricesFor(t) : TRUE

\* cash + sum over tickers of shares * the price of the batch's orders.
WorthAt(p) ==
    p.cash + p.stock_count["A"] * PriceFor("A")
           + p.stock_count["B"] * PriceFor("B")

(***************************************************************************)
(* C37  No value is created or destroyed by execution: a batch in which    *)
(* all orders of a ticker carry the same price leaves cash + sum over      *)
(* tickers of shares * that price unchanged, and the shares of a ticker    *)
(* without an order unchanged, whether the buys are scaled, skipped or run *)
(* in full, and also when the call ends with the fatal error.  The same    *)
(* holds after each single order of the batch.                             *)
(***************************************************************************)
C37_ValueConserved ==
    outcome # "none" /\ OnePrice =>
        /\ WorthAt(portfolio) = WorthAt(pre.portfolio)
        /\ \A k \in DOMAIN path : WorthAt(path[k]) = WorthAt(pre.portfolio)
        /\ \A t \in Tickers :
               PricesFor(t) = {} =>
                   portfolio.stock_count[t] = pre.portfolio.stock_count[t]

\* A batch of one price per ticker sold shares of one ticker and bought,
\* scaled down, shares of the other one with all the cash.
C37_Witness ==
    /\ outcome = "bought"
    /\ OnePrice
    /\ ratio # One
    /\ Sells(actions) # <<>>
    /\ \E k \in DOMAIN filled :
           filled[k] > 0 /\ filled[k] < Buys(actions)[k].quantity
    /\ portfolio.cash < pre.portfolio.cash
    /\ WorthAt(portfolio) > 0

\* The orders of the sequence s taken in the order f, a permutation of the
\* positions of s.
Permuted(s, f) == [i \in DOMAIN s |-> s[f[i]]]
Permutations(n) ==
    {f \in [1..n -> 1..n] : \A i, j \in 1..n : f[i] = f[j] => i = j}

(***************************************************************************)
(* C38  Batch order does not matter for the outcome: when a batch          *)
(* completes without a fatal error, every permutation of its orders,       *)
(* executed on the same portfolio, completes as well and leaves the same   *)
(* cash, share counts and cost bases.  With prices in dollars and cents    *)
(* the cash check of a buy depends on the buys executed before it: this    *)
(* statement is violated.                                                  *)
(***************************************************************************)
C38_OrderIrrelevant ==
    Returned =>
        \A f \in Permutations(Len(actions)) :
            LET r == ExecuteActionDouble(pre.portfolio, pre.trades,
                                         run_dates[di], Permuted(actions, f))
            IN  /\ r.outcome # "raised"
                /\ r.portfolio.stock_count = portfolio.stock_count
                /\ r.portfolio.cash = portfolio.cash
                /\ r.portfolio.buy_value = portfolio.buy_value

\* The position, among the sells of the last batch, of the first one that
\* asks for more than is held at its turn; 0 when there is none.
FirstOversell ==
    IF \E k \in DOMAIN Sells(actions) : Oversells(k)
    THEN CHOOSE k \in DOMAIN Sells(actions) :
             Oversells(k) /\ \A j \in 1..(k - 1) : ~Oversells(j)
    ELSE 0

\* The portfolio after the sells ss, applied in order to p.
RECURSIVE AfterSelling(_, _)
AfterSelling(p, ss) ==
    IF ss = <<>> THEN p
    ELSE AfterSelling(PortfolioUpdate(p, Head(ss).ticker, -Head(ss).quantity,
                                      Head(ss).price),
                      Tail(ss))

(***************************************************************************)
(* C39  Oversell in the middle of a batch: when the call ends with the     *)
(* fatal error, the sells that stand before the overselling order in the   *)
(* batch are applied to the portfolio and recorded in the trade log, in    *)
(* batch order; the overselling order and every later sell are not         *)
(* applied and have no record, and no buy of the batch is executed.        *)
(***************************************************************************)
C39_OversellMidBatch ==
    outcome = "raised" =>
        /\ FirstOversell >= 1
        /\ portfolio = AfterSelling(pre.portfolio, SellsBefore(FirstOversell))
        /\ Len(path) = FirstOversell - 1
        /\ NewTrades =
               [i \in 1..(FirstOversell - 1) |->
                   Trade(run_dates[di], Sells(actions)[i],
                         Sells(actions)[i].quantity)]
        /\ \A i \in DOMAIN NewTrades : NewTrades[i].type = "sell"
        /\ filled = <<>>
        /\ mid = portfolio

\* The second of three sells raised the error after the first was applied;
\* the third, for shares that are held, was left alone.
C39_Witness ==
    /\ outcome = "raised"
    /\ FirstOversell = 2
    /\ Len(Sells(actions)) = 3
    /\ Len(NewTrades) = 1
    /\ portfolio.stock_count[Sells(actions)[3].ticker]
           >= Sells(actions)[3].quantity
    /\ portfolio.stock_count[Sells(actions)[1].ticker]
           < pre.portfolio.stock_count[Sells(actions)[1].ticker]

\* The orders of one side of the last batch that ask for at least one share,
\* as they stand in the batch.
InBatchOrder(type) ==
    SelectSeq(actions, LAMBDA a : a.type = type /\ a.quantity > 0)

(***************************************************************************)
(* C40  Trade log ordering: within one strategy run the dates of the       *)
(* trade log never step back, and among the records of one date every      *)
(* sell record precedes every buy record.  The records of a call are       *)
(* dated after all earlier ones; its sell records are those of the sells   *)
(* executed, in batch order, and its buy records those of the buys that    *)
(* executed at least one share, in batch order.                            *)
(***************************************************************************)
C40_TradeLogOrder ==
    /\ \A i, j \in DOMAIN trades :
           i < j =>
               /\ trades[i].date <= trades[j].date
               /\ trades[i].date = trades[j].date /\ trades[i].type = "buy"
                      => trades[j].type = "buy"
    /\ outcome # "none" =>
           /\ SubSeq(trades, 1, Len(pre.trades)) = pre.trades
           /\ \A i \in DOMAIN pre.trades : pre.trades[i].date < run_dates[di]
           /\ NewTrades = LogOf(NewTrades, "sell") \o LogOf(NewTrades, "buy")
           /\ Len(LogOf(NewTrades, "sell")) <= Len(InBatchOrder("sell"))
           /\ \A i \in DOMAIN LogOf(NewTrades, "sell") :
                  LogOf(NewTrades, "sell")[i] =
                      Trade(run_dates[di], InBatchOrder("sell")[i],
                            InBatchOrder("sell")[i].quantity)
           /\ LogOf(NewTrades, "buy") =
                  BuyRecords(run_dates[di], InBatchOrder("buy"), filled)

\* On the second date of a run whose first date left records, a batch that
\* lists a buy between two sells of different tickers has logged the two
\* sells, in batch order, and then the buy.
C40_Witness ==
    /\ outcome = "bought"
    /\ pre.trades # <<>>
    /\ Len(actions) = 3
    /\ actions[1].type = "sell" /\ actions[2].type = "buy"
    /\ actions[3].type = "sell"
    /\ actions[1].ticker # actions[3].ticker
    /\ Len(NewTrades) = 3
    /\ NewTrades[1].ticker = actions[1].ticker
    /\ NewTrades[2].ticker = actions[3].ticker /\ NewTrades[2].type = "sell"
    /\ NewTrades[3].type = "buy"
    /\ trades[Len(pre.trades)].date < NewTrades[1].date

=============================================================================
